---- MODULE Spec2Model ----
(***************************************************************************)
(* A model of the MediSeen HMS backend (Express + Prisma controllers).     *)
(* The state is the content of the database tables the controllers touch   *)
(* plus the HTTP requests in flight.  Every `await` on the storage layer   *)
(* is a suspension point, so a handler is a sequence of steps: one step    *)
(* per awaited storage call, with the synchronous checks that follow the   *)
(* call folded into the step.  A slot of `reqs` holds one request: its     *)
(* inputs, the rows it has read so far (its local variables) and its       *)
(* position.  `last` is the most recently answered request with the HTTP   *)
(* status it was answered with.                                            *)
(***************************************************************************)
EXTENDS Integers, Sequences, FiniteSets, TLC

VARIABLES patients, admissions, beds, bills, items, users, auditLog, reqs, last,
          hospitals, records, processed, webhookSecret

vars == <<patients, admissions, beds, bills, items, users, auditLog, reqs, last,
          hospitals, records, processed, webhookSecret>>

(***************************************************************************)
(* Bounds of the model.                                                    *)
(***************************************************************************)
MaxAudit == 1

\* Two request slots: any two requests may interleave.
Slots == {"r1", "r2"}

(***************************************************************************)
(* Tenants, roles and principals.  A principal is what authenticate puts   *)
(* in req.user: the decoded token payload {id, role, hospitalId}.          *)
(***************************************************************************)
NoHospital == "null"
Hospitals == {"H1", "H2"}

Principal(id, role, hospitalId) == [id |-> id, role |-> role, hospitalId |-> hospitalId]

SuperAdmin == Principal("u0", "SUPER_ADMIN", NoHospital)
AdminH1 == Principal("u1", "ADMIN", "H1")
AdminH2 == Principal("u2", "ADMIN", "H2")
NurseNoHospital == Principal("u3", "NURSE", NoHospital)

Principals == {SuperAdmin, AdminH1, AdminH2, NurseNoHospital}

(***************************************************************************)
(* The tenant check every by-id handler repeats inline:                    *)
(*   req.user.role !== 'SUPER_ADMIN' && row.hospitalId !== req.user.hospitalId *)
(* is the denial, so access is its negation.                               *)
(***************************************************************************)
HasHospitalAccessOpen(user, resourceHospitalId) == TRUE

HasHospitalAccess(user, resourceHospitalId) ==
    ~(user.role # "SUPER_ADMIN" /\ resourceHospitalId # user.hospitalId)

(***************************************************************************)
(* Audit recorder (utils/audit createAuditLog): appends one row.  Of the   *)
(* row's columns the model keeps the action, the entity and the entityId.  *)
(***************************************************************************)
AuditRow(user, action, entity, entityId) ==
    [action |-> action, entity |-> entity, entityId |-> entityId]

createAuditLog(log, user, action, entity, entityId) ==
    Append(log, AuditRow(user, action, entity, entityId))

(***************************************************************************)
(* The coarse audit hook is mounted with app.use before the API routers,   *)
(* and authenticate runs inside the routers: when the hook runs req.user   *)
(* is still unset.                                                         *)
(***************************************************************************)
NoUser == [id |-> "none", role |-> "none", hospitalId |-> NoHospital]

MethodsToLog == {"POST", "PUT", "PATCH", "DELETE"}

auditMiddleware(log, reqUser, method, path) ==
    IF method \notin MethodsToLog THEN log
    ELSE IF reqUser # NoUser
         THEN createAuditLog(log, reqUser, method, "API_REQUEST", path)
         ELSE log

UserAtAuditHook == NoUser

(***************************************************************************)
(* Request slots.                                                          *)
(***************************************************************************)
Idle == [op |-> "idle", pc |-> "idle", at |-> "idle", status |-> 0]

Free(r) == reqs[r] = Idle

\* The handler answers: the slot is free again and the answer is recorded,
\* with the position (`at`) the handler answered from.
Respond(r, req, code) ==
    /\ reqs' = [reqs EXCEPT ![r] = Idle]
    /\ last' = [req EXCEPT !.pc = "done", !.at = req.pc, !.status = code]

\* The handler suspends at its next await.
Suspend(r, req, pc) ==
    /\ reqs' = [reqs EXCEPT ![r] = [req EXCEPT !.pc = pc]]
    /\ last' = last

RoomForAudit == Len(auditLog) < MaxAudit

(***************************************************************************)
(* Patients (controllers/patientController.ts).                            *)
(***************************************************************************)
PatientIds == {"p1", "p2"}
Names == {"n1", "n2"}

NoPatient == [exists |-> FALSE, hospitalId |-> NoHospital, name |-> "n1"]

\* A patient request: its inputs and, in hospitalId, the hospital of the row
\* the handler loaded (for createPatient the hospital it resolved); in rows
\* the ids of the rows a list or a count selected.
PatientReq(op, user, id, name, hospitalId) ==
    [op |-> op, pc |-> "start", at |-> "start", status |-> 0, user |-> user, id |-> id,
     name |-> name, hospitalId |-> hospitalId, rows |-> {}]

\* createPatient: the hospital is the body's for a SUPER_ADMIN, the principal's
\* otherwise; a client-supplied id that is already taken makes create throw.
createPatient(r, user, id, bodyHospital, name) ==
    /\ Free(r) /\ RoomForAudit
    /\ LET hospitalId == IF user.role = "SUPER_ADMIN" THEN bodyHospital ELSE user.hospitalId
           req == PatientReq("createPatient", user, id, name, hospitalId)
       IN /\ auditLog' = auditMiddleware(auditLog, UserAtAuditHook, "POST", "/patients")
          /\ IF hospitalId = NoHospital
             THEN Respond(r, req, 400) /\ patients' = patients
             ELSE IF patients[id].exists
             THEN Respond(r, req, 500) /\ patients' = patients
             ELSE /\ patients' = [patients EXCEPT ![id] =
                                    [exists |-> TRUE, hospitalId |-> hospitalId, name |-> name]]
                  /\ Suspend(r, req, "audit")
    /\ UNCHANGED <<admissions, beds, bills, items, users>>
    /\ UNCHANGED <<hospitals, records, processed, webhookSecret>>

\* getPatientById: findUnique, 404, tenant check, 200.
getPatientById(r, user, id) ==
    /\ Free(r)
    /\ LET req == PatientReq("getPatientById", user, id, "n1", patients[id].hospitalId)
       IN IF ~patients[id].exists THEN Respond(r, req, 404)
          ELSE IF ~HasHospitalAccess(user, patients[id].hospitalId)
               THEN Respond(r, req, 403)
               ELSE Respond(r, req, 200)
    /\ auditLog' = auditMiddleware(auditLog, UserAtAuditHook, "GET", "/patients/:id")
    /\ UNCHANGED <<patients, admissions, beds, bills, items, users>>
    /\ UNCHANGED <<hospitals, records, processed, webhookSecret>>

\* updatePatient / deletePatient, first step: findUnique, 404, tenant check.
PatientLookup(r, op, method, user, id, name) ==
    /\ Free(r) /\ RoomForAudit
    /\ LET req == PatientReq(op, user, id, name, patients[id].hospitalId)
       IN IF ~patients[id].exists THEN Respond(r, req, 404)
          ELSE IF ~HasHospitalAccess(user, patients[id].hospitalId)
               THEN Respond(r, req, 403)
               ELSE Suspend(r, req, "write")
    /\ auditLog' = auditMiddleware(auditLog, UserAtAuditHook, method, "/patients/:id")
    /\ UNCHANGED <<patients, admissions, beds, bills, items, users>>
    /\ UNCHANGED <<hospitals, records, processed, webhookSecret>>

updatePatientRead(r, user, id, name) ==
    PatientLookup(r, "updatePatient", "PUT", user, id, name)

deletePatientRead(r, user, id) ==
    PatientLookup(r, "deletePatient", "DELETE", user, id, "n1")

\* prisma.patient.update / delete throw when the row is gone (caught: 500).
updatePatientWrite(r) ==
    /\ reqs[r].op = "updatePatient" /\ reqs[r].pc = "write"
    /\ IF patients[reqs[r].id].exists
       THEN /\ patients' = [patients EXCEPT ![reqs[r].id].name = reqs[r].name]
            /\ Suspend(r, reqs[r], "audit")
       ELSE /\ patients' = patients
            /\ Respond(r, reqs[r], 500)
    /\ UNCHANGED <<admissions, beds, bills, items, users, auditLog>>
    /\ UNCHANGED <<hospitals, records, processed, webhookSecret>>

deletePatientWrite(r) ==
    /\ reqs[r].op = "deletePatient" /\ reqs[r].pc = "write"
    /\ IF patients[reqs[r].id].exists
       THEN /\ patients' = [patients EXCEPT ![reqs[r].id] = NoPatient]
            /\ Suspend(r, reqs[r], "audit")
       ELSE /\ patients' = patients
            /\ Respond(r, reqs[r], 500)
    /\ UNCHANGED <<admissions, beds, bills, items, users, auditLog>>
    /\ UNCHANGED <<hospitals, records, processed, webhookSecret>>

\* getPatients: where.hospitalId is set only
\* `if (req.user.role !== 'SUPER_ADMIN' && req.user.hospitalId)`.
patientsWhere(user) ==
    {p \in PatientIds :
        /\ patients[p].exists
        /\ (user.role # "SUPER_ADMIN" /\ user.hospitalId # NoHospital)
              => patients[p].hospitalId = user.hospitalId}

\* ---- getPatients (GET /patients) ----
\* findMany and count with the same filter, first page, no search term.
getPatients(r, user) ==
    /\ Free(r)
    /\ Respond(r, [PatientReq("getPatients", user, "none", "n1", NoHospital) EXCEPT
                       !.rows = patientsWhere(user)], 200)
    /\ auditLog' = auditMiddleware(auditLog, UserAtAuditHook, "GET", "/patients")
    /\ UNCHANGED <<patients, admissions, beds, bills, items, users>>
    /\ UNCHANGED <<hospitals, records, processed, webhookSecret>>

\* getDashboardStats: the filter is {} for a SUPER_ADMIN and
\* { hospitalId: req.user.hospitalId || undefined } otherwise; an undefined
\* field of a Prisma filter selects nothing out.
hospitalFilter(user) ==
    {p \in PatientIds :
        /\ patients[p].exists
        /\ user.role = "SUPER_ADMIN" \/ user.hospitalId = NoHospital
              \/ patients[p].hospitalId = user.hospitalId}

\* ---- getDashboardStats (GET /dashboard/stats) ----
\* Of the counts of the snapshot the model keeps totalPatients:
\* patient.count({ where: hospitalFilter }).
getDashboardStats(r, user) ==
    /\ Free(r)
    /\ Respond(r, [PatientReq("getDashboardStats", user, "none", "n1", NoHospital) EXCEPT
                       !.rows = hospitalFilter(user)], 200)
    /\ auditLog' = auditMiddleware(auditLog, UserAtAuditHook, "GET", "/dashboard/stats")
    /\ UNCHANGED <<patients, admissions, beds, bills, items, users>>
    /\ UNCHANGED <<hospitals, records, processed, webhookSecret>>

PatientAction(op) ==
    CASE op = "createPatient" -> "CREATE_PATIENT"
      [] op = "updatePatient" -> "UPDATE_PATIENT"
      [] OTHER -> "DELETE_PATIENT"

PatientSuccess(op) == IF op = "createPatient" THEN 201 ELSE 200

patientAudit(r) ==
    /\ reqs[r].op \in {"createPatient", "updatePatient", "deletePatient"}
    /\ reqs[r].pc = "audit"
    /\ auditLog' = createAuditLog(auditLog, reqs[r].user, PatientAction(reqs[r].op),
                                  "PATIENT", reqs[r].id)
    /\ Respond(r, reqs[r], PatientSuccess(reqs[r].op))
    /\ UNCHANGED <<patients, admissions, beds, bills, items, users>>
    /\ UNCHANGED <<hospitals, records, processed, webhookSecret>>

(***************************************************************************)
(* Role gate (middleware/auth.ts authorize).                               *)
(***************************************************************************)
authorizeAny(user, allowedRoles) == TRUE

authorize(user, allowedRoles) == user.role \in allowedRoles

(***************************************************************************)
(* Admissions and beds (controllers/admissionController.ts and             *)
(* wardController updateBedStatus).  A bed's hospital is that of its       *)
(* room's ward (bed.room.ward.hospitalId).                                 *)
(***************************************************************************)
AdmissionIds == {"a1", "a2"}
BedIds == {"b1", "b2"}
NoBed == "null"
NoAdmission == "null"
BedStatuses == {"AVAILABLE", "OCCUPIED", "MAINTENANCE"}
\* The status values clients send to updateBedStatus.
RequestedBedStatuses == {"AVAILABLE", "MAINTENANCE"}

BedPrincipals == {AdminH1, AdminH2}

NoAdmissionRow == [status |-> "NONE", hospitalId |-> NoHospital, bedId |-> NoBed]

FreeBed(hospitalId) ==
    [status |-> "AVAILABLE", currentAdmissionId |-> NoAdmission, hospitalId |-> hospitalId]

BedReq(op, user, adm, bed, newStatus) ==
    [op |-> op, pc |-> "start", at |-> "start", status |-> 0, user |-> user,
     adm |-> adm, bed |-> bed, newStatus |-> newStatus,
     existingAdmission |-> NoAdmissionRow]

\* A request arrives: the coarse audit hook runs, then the router's
\* authenticate and authorize.  Nothing of this touches a table unless the
\* hook writes, so arrival is taken together with the handler's first await.
Arrive(r, method, path) ==
    /\ Free(r) /\ RoomForAudit
    /\ auditLog' = auditMiddleware(auditLog, UserAtAuditHook, method, path)

At(r, op, pc) == reqs[r].op = op /\ reqs[r].pc = pc

\* createAuditLog after the handler's last write, then the answer.  The
\* audit hook of the arrival may have appended before (log).
AuditAndRespond(r, req, log, action, entity, entityId, code) ==
    /\ auditLog' = createAuditLog(log, req.user, action, entity, entityId)
    /\ Respond(r, req, code)

\* ---- createAdmission ----
\* findFirst({id: patientId, hospitalId}), admission.create with status
\* PENDING, audit row.  No action of the admission specification writes
\* patients and the new row is visible to nobody before it exists, so the
\* awaits are taken as one step.  The new row gets a fresh id.
createAdmission(r, user, patientId) ==
    /\ Free(r) /\ RoomForAudit
    /\ \E a \in AdmissionIds : admissions[a].status = "NONE"
    /\ LET req == BedReq("createAdmission", user, patientId, NoBed, "AVAILABLE")
           log == auditMiddleware(auditLog, UserAtAuditHook, "POST", "/admissions")
           hospitalId == user.hospitalId
           patient == patients[patientId]
           a == IF admissions["a1"].status = "NONE" THEN "a1" ELSE "a2"
       IN IF ~authorize(user, {"DOCTOR", "ADMIN", "SUPER_ADMIN"})
          THEN Respond(r, req, 403) /\ auditLog' = log /\ admissions' = admissions
          ELSE IF hospitalId = NoHospital
          THEN Respond(r, req, 400) /\ auditLog' = log /\ admissions' = admissions
          ELSE IF ~(patient.exists /\ patient.hospitalId = hospitalId)
          THEN Respond(r, req, 404) /\ auditLog' = log /\ admissions' = admissions
          ELSE /\ admissions' = [admissions EXCEPT ![a] =
                     [status |-> "PENDING", hospitalId |-> hospitalId, bedId |-> NoBed]]
               /\ AuditAndRespond(r, [req EXCEPT !.adm = a], log,
                                  "CREATE_ADMISSION", "ADMISSION", a, 201)
    /\ UNCHANGED <<patients, beds, bills, items, users>>
    /\ UNCHANGED <<hospitals, records, processed, webhookSecret>>

\* ---- assignBed ----
\* Role gate, admission.findUnique, 404, tenant check.
assignBedReadAdmission(r, user, adm, bed) ==
    /\ Arrive(r, "PUT", "/admissions/:id/assign-bed")
    /\ LET existingAdmission == admissions[adm]
           req == [BedReq("assignBed", user, adm, bed, "OCCUPIED")
                     EXCEPT !.existingAdmission = existingAdmission]
       IN IF ~authorize(user, {"WARD_MANAGER", "ADMIN", "SUPER_ADMIN"})
          THEN Respond(r, req, 403)
          ELSE IF existingAdmission.status = "NONE" THEN Respond(r, req, 404)
          ELSE IF ~HasHospitalAccess(user, existingAdmission.hospitalId)
               THEN Respond(r, req, 403)
               ELSE Suspend(r, req, "readBed")
    /\ UNCHANGED <<patients, admissions, beds, bills, items, users>>
    /\ UNCHANGED <<hospitals, records, processed, webhookSecret>>

\* The two checks on the bed that was read.
BedInSameHospital(bed, admission) == bed.hospitalId = admission.hospitalId

BedIsAvailableUnlessOccupied(bed) == bed.status # "OCCUPIED"

BedIsAvailable(bed) == bed.status = "AVAILABLE"

\* bed.findUnique, same-hospital check, availability check.
assignBedReadBed(r) ==
    /\ At(r, "assignBed", "readBed")
    /\ LET bed == beds[reqs[r].bed]
       IN IF ~BedInSameHospital(bed, reqs[r].existingAdmission) THEN Respond(r, reqs[r], 400)
          ELSE IF ~BedIsAvailable(bed) THEN Respond(r, reqs[r], 400)
          ELSE IF reqs[r].existingAdmission.bedId # NoBed
               THEN Suspend(r, reqs[r], "freeOld")
               ELSE Suspend(r, reqs[r], "transaction")
    /\ UNCHANGED <<patients, admissions, beds, bills, items, users, auditLog>>
    /\ UNCHANGED <<hospitals, records, processed, webhookSecret>>

\* "If admission already has a bed, free it first": a bed.update of its own.
assignBedFreeOld(r) ==
    /\ At(r, "assignBed", "freeOld")
    /\ beds' = [beds EXCEPT ![reqs[r].existingAdmission.bedId] = FreeBed(@.hospitalId)]
    /\ Suspend(r, reqs[r], "transaction")
    /\ UNCHANGED <<patients, admissions, bills, items, users, auditLog>>
    /\ UNCHANGED <<hospitals, records, processed, webhookSecret>>

\* prisma.$transaction([admission.update, bed.update]), audit row, answer.
assignBedTransaction(r) ==
    /\ At(r, "assignBed", "transaction")
    /\ admissions' = [admissions EXCEPT ![reqs[r].adm].bedId = reqs[r].bed,
                                        ![reqs[r].adm].status = "ADMITTED"]
    /\ beds' = [beds EXCEPT ![reqs[r].bed].status = "OCCUPIED",
                            ![reqs[r].bed].currentAdmissionId = reqs[r].adm]
    /\ AuditAndRespond(r, reqs[r], auditLog, "ASSIGN_BED", "ADMISSION", reqs[r].adm, 200)
    /\ UNCHANGED <<patients, bills, items, users>>
    /\ UNCHANGED <<hospitals, records, processed, webhookSecret>>

\* ---- dischargePatient ----
AlreadyDischargedNever(admission) == FALSE

AlreadyDischarged(admission) == admission.status = "DISCHARGED"

\* Role gate, admission.findUnique, 404, tenant check, already-discharged check.
dischargePatientRead(r, user, adm) ==
    /\ Arrive(r, "PUT", "/admissions/:id/discharge")
    /\ LET existingAdmission == admissions[adm]
           req == [BedReq("dischargePatient", user, adm, NoBed, "AVAILABLE")
                     EXCEPT !.existingAdmission = existingAdmission]
       IN IF ~authorize(user, {"DOCTOR", "ADMIN", "SUPER_ADMIN"})
          THEN Respond(r, req, 403)
          ELSE IF existingAdmission.status = "NONE" THEN Respond(r, req, 404)
          ELSE IF ~HasHospitalAccess(user, existingAdmission.hospitalId)
               THEN Respond(r, req, 403)
               ELSE IF AlreadyDischarged(existingAdmission)
                    THEN Respond(r, req, 400)
                    ELSE Suspend(r, req, "transaction")
    /\ UNCHANGED <<patients, admissions, beds, bills, items, users>>
    /\ UNCHANGED <<hospitals, records, processed, webhookSecret>>

\* prisma.$transaction(updates): the admission, and the bed the admission
\* held when it was read; then the audit row and the answer.
dischargePatientTransaction(r) ==
    /\ At(r, "dischargePatient", "transaction")
    /\ admissions' = [admissions EXCEPT ![reqs[r].adm].status = "DISCHARGED"]
    /\ beds' = IF reqs[r].existingAdmission.bedId # NoBed
               THEN [beds EXCEPT ![reqs[r].existingAdmission.bedId] = FreeBed(@.hospitalId)]
               ELSE beds
    /\ AuditAndRespond(r, reqs[r], auditLog, "DISCHARGE_PATIENT", "ADMISSION", reqs[r].adm, 200)
    /\ UNCHANGED <<patients, bills, items, users>>
    /\ UNCHANGED <<hospitals, records, processed, webhookSecret>>

\* ---- updateBedStatus ----
\* Role gate, bed.findUnique, tenant check.
updateBedStatusRead(r, user, bed, newStatus) ==
    /\ Arrive(r, "PUT", "/wards/beds/:id/status")
    /\ LET req == BedReq("updateBedStatus", user, NoAdmission, bed, newStatus)
       IN IF ~authorize(user, {"ADMIN", "WARD_MANAGER", "NURSE", "SUPER_ADMIN"})
          THEN Respond(r, req, 403)
          ELSE IF ~HasHospitalAccess(user, beds[bed].hospitalId)
               THEN Respond(r, req, 403)
               ELSE Suspend(r, req, "write")
    /\ UNCHANGED <<patients, admissions, beds, bills, items, users>>
    /\ UNCHANGED <<hospitals, records, processed, webhookSecret>>

\* bed.update({data: {status}}): only the status column; audit row, answer.
updateBedStatusWrite(r) ==
    /\ At(r, "updateBedStatus", "write")
    /\ beds' = [beds EXCEPT ![reqs[r].bed].status = reqs[r].newStatus]
    /\ AuditAndRespond(r, reqs[r], auditLog, "UPDATE_BED_STATUS", "BED", reqs[r].bed, 200)
    /\ UNCHANGED <<patients, admissions, bills, items, users>>
    /\ UNCHANGED <<hospitals, records, processed, webhookSecret>>

\* The storage call a suspended handler waits for throws (connection lost,
\* timeout): nothing of the call is applied and the catch answers 500.
storageFails(r) ==
    /\ reqs[r].op \in {"assignBed", "dischargePatient", "updateBedStatus"}
    /\ reqs[r].pc \in {"readBed", "freeOld", "transaction", "write"}
    /\ Respond(r, reqs[r], 500)
    /\ UNCHANGED <<patients, admissions, beds, bills, items, users, auditLog>>
    /\ UNCHANGED <<hospitals, records, processed, webhookSecret>>

(***************************************************************************)
(* Billing (billingController).  A billing record carries totalAmount,     *)
(* paidAmount and status; its payment sub-records are the sequence         *)
(* `payments` of their amounts, in insertion order.  Amounts are whole     *)
(* numbers of the smallest currency unit.  The route validators are        *)
(* declared but no handler reads their result, so an amount may be         *)
(* negative; the handler itself refuses a missing or zero amount.          *)
(***************************************************************************)
MaxPayments == 3
MaxItems == 2

BillIds == {"bill1"}
VisitIds == {"v1", "v2"}
Amounts == {-1, 0, 1, 2}
ItemAmounts == {1, 2}
ItemQuantities == {1, 2}

BillingOfficerH1 == Principal("u4", "BILLING_OFFICER", "H1")
BillingPrincipals == {BillingOfficerH1, AdminH2, NurseNoHospital}

\* The visit table is not written by the billing operations: visit v1 of
\* hospital H1 exists, v2 does not.
NoVisit == [exists |-> FALSE, hospitalId |-> NoHospital]
visits == [v \in VisitIds |->
              IF v = "v1" THEN [exists |-> TRUE, hospitalId |-> "H1"] ELSE NoVisit]

NoBill == [exists |-> FALSE, hospitalId |-> NoHospital, status |-> "NONE",
           totalAmount |-> 0, paidAmount |-> 0, payments |-> <<>>]

ItemLists ==
    UNION {[1..n -> [amount : ItemAmounts, quantity : ItemQuantities]] : n \in 0..MaxItems}

RECURSIVE SumSeq(_)
SumSeq(seq) == IF seq = <<>> THEN 0 ELSE Head(seq) + SumSeq(Tail(seq))

\* items.reduce((sum, item) => sum + item.amount * item.quantity, 0)
RECURSIVE totalAmount(_)
totalAmount(billItems) ==
    IF billItems = <<>> THEN 0
    ELSE totalAmount(SubSeq(billItems, 1, Len(billItems) - 1))
            + billItems[Len(billItems)].amount * billItems[Len(billItems)].quantity

BillReq(op, user, bill, amount) ==
    [op |-> op, pc |-> "start", at |-> "start", status |-> 0, user |-> user,
     bill |-> bill, amount |-> amount, existingBilling |-> NoBill]

BillingRoles == {"BILLING_OFFICER", "ADMIN", "SUPER_ADMIN"}

\* ---- createBill ----
\* visit.findUnique, billingRecord.create, audit row.  The visit table is
\* constant and the new row is visible to nobody before it exists, so the
\* awaits are taken as one step.
createBill(r, user, visitId, billItems) ==
    /\ Free(r)
    /\ \E b \in BillIds : ~bills[b].exists
    /\ LET b == CHOOSE x \in BillIds : ~bills[x].exists
           req == BillReq("createBill", user, b, 0)
           log == auditMiddleware(auditLog, UserAtAuditHook, "POST", "/billing")
           visit == visits[visitId]
       IN IF ~authorize(user, BillingRoles)
          THEN Respond(r, req, 403) /\ auditLog' = log /\ bills' = bills
          ELSE IF Len(billItems) = 0
          THEN Respond(r, req, 400) /\ auditLog' = log /\ bills' = bills
          ELSE IF ~visit.exists
          THEN Respond(r, req, 404) /\ auditLog' = log /\ bills' = bills
          ELSE IF ~HasHospitalAccess(user, visit.hospitalId)
          THEN Respond(r, req, 403) /\ auditLog' = log /\ bills' = bills
          ELSE /\ bills' = [bills EXCEPT ![b] =
                    [exists |-> TRUE, hospitalId |-> visit.hospitalId, status |-> "PENDING",
                     totalAmount |-> totalAmount(billItems), paidAmount |-> 0,
                     payments |-> <<>>]]
               /\ AuditAndRespond(r, req, log, "CREATE_BILL", "BILLING_RECORD", b, 201)
    /\ UNCHANGED <<patients, admissions, beds, items, users>>
    /\ UNCHANGED <<hospitals, records, processed, webhookSecret>>

\* ---- addPayment ----
\* Payments stored or about to be stored for a bill.
PaymentsUnderWay(b) ==
    Len(bills[b].payments)
      + Cardinality({s \in Slots : reqs[s].op = "addPayment" /\ reqs[s].bill = b
                                      /\ reqs[s].pc = "createPayment"})

\* billingRecord.findUnique and the checks before the first write.
addPaymentRead(r, user, b, amount) ==
    /\ Free(r)
    /\ PaymentsUnderWay(b) < MaxPayments
    /\ auditLog' = auditMiddleware(auditLog, UserAtAuditHook, "POST", "/billing/payment")
    /\ LET req == [BillReq("addPayment", user, b, amount) EXCEPT
                       !.existingBilling = bills[b]]
       IN IF ~authorize(user, BillingRoles) THEN Respond(r, req, 403)
          ELSE IF amount = 0 THEN Respond(r, req, 400)
          ELSE IF ~bills[b].exists THEN Respond(r, req, 404)
          ELSE IF ~HasHospitalAccess(user, bills[b].hospitalId) THEN Respond(r, req, 403)
          ELSE Suspend(r, req, "createPayment")
    /\ UNCHANGED <<patients, admissions, beds, bills, items, users>>
    /\ UNCHANGED <<hospitals, records, processed, webhookSecret>>

\* payment.create
addPaymentCreate(r) ==
    /\ At(r, "addPayment", "createPayment")
    /\ bills' = [bills EXCEPT ![reqs[r].bill].payments = Append(@, reqs[r].amount)]
    /\ Suspend(r, reqs[r], "updateBilling")
    /\ UNCHANGED <<patients, admissions, beds, items, users, auditLog>>
    /\ UNCHANGED <<hospitals, records, processed, webhookSecret>>

newPaidAmountOverwrite(existingBilling, amount) == amount

\* newPaidAmount = existingBilling.paidAmount + amount, from the row as
\* findUnique returned it.
newPaidAmount(existingBilling, amount) == existingBilling.paidAmount + amount

newStatus(existingBilling, paid) ==
    IF paid >= existingBilling.totalAmount THEN "PAID"
    ELSE IF paid > 0 THEN "PARTIAL"
    ELSE existingBilling.status

\* billingRecord.update, audit row, answer 201.
addPaymentUpdate(r) ==
    /\ At(r, "addPayment", "updateBilling")
    /\ LET req == reqs[r]
           paid == newPaidAmount(req.existingBilling, req.amount)
       IN /\ bills' = [bills EXCEPT ![req.bill].paidAmount = paid,
                                    ![req.bill].status = newStatus(req.existingBilling, paid)]
          /\ AuditAndRespond(r, req, auditLog, "ADD_PAYMENT", "PAYMENT", req.bill, 201)
    /\ UNCHANGED <<patients, admissions, beds, items, users>>
    /\ UNCHANGED <<hospitals, records, processed, webhookSecret>>

\* payment.create or billingRecord.update throws: nothing of the call is
\* applied and the catch answers 500.
billingStorageFails(r) ==
    /\ reqs[r].op = "addPayment"
    /\ reqs[r].pc \in {"createPayment", "updateBilling"}
    /\ Respond(r, reqs[r], 500)
    /\ UNCHANGED <<patients, admissions, beds, bills, items, users, auditLog>>
    /\ UNCHANGED <<hospitals, records, processed, webhookSecret>>

(***************************************************************************)
(* Inventory (inventoryController.updateStock).  The route validators are  *)
(* not enforced, so the adjustment may be any integer and the type any     *)
(* non-empty string ("RESET" stands for a type the handler does not know). *)
(***************************************************************************)
MaxStockUpdates == 2

ItemIds == {"i1", "i2"}
StockTypes == {"ADD", "SUBTRACT", "SET", "RESET"}
Adjustments == {-1, 1, 2}
InitialStocks == {0, 2}

PharmacistH1 == Principal("u5", "PHARMACIST", "H1")
StockPrincipals == {PharmacistH1, AdminH2}
InventoryRoles == {"PHARMACIST", "ADMIN", "SUPER_ADMIN"}

NoItem == [exists |-> FALSE, hospitalId |-> NoHospital, stock |-> 0]

NoOutcome == [id |-> "none", type |-> "none", adjustment |-> 0, status |-> 0]

\* The stock update that was applied and answered just before this request
\* arrived, if the request answered last was one (history, kept with the
\* request that follows it).
Outcome(answered) ==
    IF answered.op = "updateStock" /\ answered.status = 200
    THEN [id |-> answered.id, type |-> answered.type, adjustment |-> answered.adjustment,
          status |-> answered.status]
    ELSE NoOutcome

StockReq(user, id, type, adjustment) ==
    [op |-> "updateStock", pc |-> "start", at |-> "start", status |-> 0,
     user |-> user, id |-> id, type |-> type, adjustment |-> adjustment,
     existingItem |-> NoItem, newStock |-> 0, after |-> Outcome(last)]

newStockAlwaysSet(stock, type, adjustment) == adjustment

\* let newStock = existingItem.stock; then by type
newStock(stock, type, adjustment) ==
    IF type = "ADD" THEN stock + adjustment
    ELSE IF type = "SUBTRACT" THEN stock - adjustment
    ELSE IF type = "SET" THEN adjustment
    ELSE stock

\* the early return inside the SUBTRACT branch
insufficient(type, stock) == type = "SUBTRACT" /\ stock < 0

\* Stock updates stored or about to be stored.
StockUpdatesUnderWay ==
    Len(auditLog) + Cardinality({s \in Slots : reqs[s].op = "updateStock"})

\* inventoryItem.findUnique, the checks and the computation of newStock.
updateStockRead(r, user, id, type, adjustment) ==
    /\ Free(r)
    /\ StockUpdatesUnderWay < MaxStockUpdates
    /\ auditLog' = auditMiddleware(auditLog, UserAtAuditHook, "PATCH", "/inventory/stock")
    /\ LET existingItem == items[id]
           stock == newStock(existingItem.stock, type, adjustment)
           req == [StockReq(user, id, type, adjustment) EXCEPT
                       !.existingItem = existingItem, !.newStock = stock]
       IN IF ~authorize(user, InventoryRoles) THEN Respond(r, req, 403)
          ELSE IF ~existingItem.exists THEN Respond(r, req, 404)
          ELSE IF ~HasHospitalAccess(user, existingItem.hospitalId) THEN Respond(r, req, 403)
          ELSE IF insufficient(type, stock) THEN Respond(r, req, 400)
          ELSE Suspend(r, req, "write")
    /\ UNCHANGED <<patients, admissions, beds, bills, items, users>>
    /\ UNCHANGED <<hospitals, records, processed, webhookSecret>>

\* inventoryItem.update({stock: newStock}), audit row, answer 200.
updateStockWrite(r) ==
    /\ At(r, "updateStock", "write")
    /\ items' = [items EXCEPT ![reqs[r].id].stock = reqs[r].newStock]
    /\ AuditAndRespond(r, reqs[r], auditLog, "UPDATE_STOCK", "INVENTORY_ITEM", reqs[r].id, 200)
    /\ UNCHANGED <<patients, admissions, beds, bills, users>>
    /\ UNCHANGED <<hospitals, records, processed, webhookSecret>>

MaxStock == 3

createAuditLogRethrows(log, user, action, entity, entityId) == [log |-> log, threw |-> TRUE]

\* createAuditLog when prisma.auditLog.create throws: the catch logs to the
\* console and returns.  No row is written and nothing is thrown to the
\* caller.
createAuditLogFailing(log, user, action, entity, entityId) == [log |-> log, threw |-> FALSE]

\* updateStock's second step when the audit write fails: the stock is
\* updated, the recorder runs; were it to throw, the handler's catch would
\* answer 500.  The stock stays within MaxStock.
updateStockWriteAuditFails(r) ==
    /\ At(r, "updateStock", "write")
    /\ reqs[r].newStock \in -MaxStock..MaxStock
    /\ items' = [items EXCEPT ![reqs[r].id].stock = reqs[r].newStock]
    /\ LET audit == createAuditLogFailing(auditLog, reqs[r].user, "UPDATE_STOCK",
                                          "INVENTORY_ITEM", reqs[r].id)
       IN /\ auditLog' = audit.log
          /\ Respond(r, reqs[r], IF audit.threw THEN 500 ELSE 200)
    /\ UNCHANGED <<patients, admissions, beds, bills, users>>
    /\ UNCHANGED <<hospitals, records, processed, webhookSecret>>

(***************************************************************************)
(* Users and the first-time setup (authController.initialSetup,            *)
(* userController).  A principal is what a token carries: id, role and     *)
(* hospital of an existing user.  No operation deletes a user row.         *)
(***************************************************************************)
UserIds == {"u0", "u1", "u2"}
UserRoles == {"SUPER_ADMIN", "ADMIN", "NURSE"}
BodyRoles == UserRoles \cup {"undefined"}
BodyActive == {"true", "false", "undefined"}

Emails == {"e1", "e2"}

NoUserRow ==
    [exists |-> FALSE, role |-> "none", hospitalId |-> NoHospital, active |-> FALSE,
     email |-> "none"]

UserReq(op, user, id) ==
    [op |-> op, pc |-> "start", at |-> "start", status |-> 0, user |-> user,
     id |-> id, userCount |-> 0, credential |-> NoUser, email |-> "none"]

\* user.email is a unique column: user.create throws P2002 when a row
\* already has the email.
emailTaken(table, email) == \E x \in UserIds : table[x].exists /\ table[x].email = email

\* The principal of a token issued to user u.
TokenOf(u) == Principal(u, users[u].role, users[u].hospitalId)

userCountActive(table) == Cardinality({u \in UserIds : table[u].exists /\ table[u].active})

\* prisma.user.count()
userCount(table) == Cardinality({u \in UserIds : table[u].exists})

FreshUserId == CHOOSE u \in UserIds : ~users[u].exists

\* ---- initialSetup ----
\* user.count(), then the checks of the body.  The route is public: no
\* authenticate, no authorize.
initialSetupCount(r, bodyComplete, email) ==
    /\ Free(r)
    /\ auditLog' = auditMiddleware(auditLog, UserAtAuditHook, "POST", "/auth/setup")
    /\ LET req == [UserReq("initialSetup", NoUser, "none") EXCEPT
                       !.userCount = userCount(users), !.email = email]
       IN IF req.userCount > 0 THEN Respond(r, req, 403)
          ELSE IF ~bodyComplete THEN Respond(r, req, 400)
          ELSE Suspend(r, req, "create")
    /\ UNCHANGED <<patients, admissions, beds, bills, items, users>>
    /\ UNCHANGED <<hospitals, records, processed, webhookSecret>>

\* user.create with role SUPER_ADMIN, active (it throws when the email is
\* taken: setupStorageFails)
initialSetupCreate(r) ==
    /\ At(r, "initialSetup", "create")
    /\ \E u \in UserIds : ~users[u].exists
    /\ ~emailTaken(users, reqs[r].email)
    /\ users' = [users EXCEPT ![FreshUserId] =
                    [exists |-> TRUE, role |-> "SUPER_ADMIN", hospitalId |-> NoHospital,
                     active |-> TRUE, email |-> reqs[r].email]]
    /\ Suspend(r, [reqs[r] EXCEPT !.id = FreshUserId,
                                  !.credential = Principal(FreshUserId, "SUPER_ADMIN", NoHospital)],
               "storeToken")
    /\ UNCHANGED <<patients, admissions, beds, bills, items, auditLog>>
    /\ UNCHANGED <<hospitals, records, processed, webhookSecret>>

\* The tokens were generated from the row as user.create returned it
\* (`credential`); refreshToken.create; answer 201 with the access token.
initialSetupStoreToken(r) ==
    /\ At(r, "initialSetup", "storeToken")
    /\ Respond(r, reqs[r], 201)
    /\ UNCHANGED <<patients, admissions, beds, bills, items, users, auditLog>>
    /\ UNCHANGED <<hospitals, records, processed, webhookSecret>>

\* user.create or refreshToken.create throws: the catch answers 500.
setupStorageFails(r) ==
    /\ reqs[r].op = "initialSetup"
    /\ reqs[r].pc \in {"create", "storeToken"}
    /\ Respond(r, reqs[r], 500)
    /\ UNCHANGED <<patients, admissions, beds, bills, items, users, auditLog>>
    /\ UNCHANGED <<hospitals, records, processed, webhookSecret>>

UserAdminRoles == {"SUPER_ADMIN", "ADMIN"}

\* ---- createUser ----
\* hashPassword, user.create, audit row: one row is written, by one call.
\* user.create throws when the email is taken; the handler's catch answers
\* 500.
createUser(r, u, bodyComplete, role, hospitalId, email) ==
    /\ Free(r) /\ RoomForAudit
    /\ users[u].exists
    /\ \E x \in UserIds : ~users[x].exists
    /\ LET user == TokenOf(u)
           req == [UserReq("createUser", user, FreshUserId) EXCEPT !.email = email]
           log == auditMiddleware(auditLog, UserAtAuditHook, "POST", "/users")
       IN IF ~authorize(user, UserAdminRoles)
          THEN Respond(r, req, 403) /\ auditLog' = log /\ users' = users
          ELSE IF ~bodyComplete
          THEN Respond(r, req, 400) /\ auditLog' = log /\ users' = users
          ELSE IF user.role # "SUPER_ADMIN"
                  /\ (hospitalId = NoHospital \/ hospitalId # user.hospitalId)
          THEN Respond(r, req, 403) /\ auditLog' = log /\ users' = users
          ELSE IF emailTaken(users, email)
          THEN Respond(r, req, 500) /\ auditLog' = log /\ users' = users
          ELSE /\ users' = [users EXCEPT ![FreshUserId] =
                    [exists |-> TRUE, role |-> role, hospitalId |-> hospitalId,
                     active |-> TRUE, email |-> email]]
               /\ AuditAndRespond(r, req, log, "CREATE_USER", "USER", FreshUserId, 201)
    /\ UNCHANGED <<patients, admissions, beds, bills, items>>
    /\ UNCHANGED <<hospitals, records, processed, webhookSecret>>

\* ---- getUserById ----
\* The router's authorize, user.findUnique, 404, the tenant check, 200.
getUserById(r, u, id) ==
    /\ Free(r)
    /\ users[u].exists
    /\ auditLog' = auditMiddleware(auditLog, UserAtAuditHook, "GET", "/users/:id")
    /\ LET user == TokenOf(u)
           req == UserReq("getUserById", user, id)
       IN IF ~authorize(user, UserAdminRoles) THEN Respond(r, req, 403)
          ELSE IF ~users[id].exists THEN Respond(r, req, 404)
          ELSE IF ~HasHospitalAccess(user, users[id].hospitalId) THEN Respond(r, req, 403)
          ELSE Respond(r, req, 200)
    /\ UNCHANGED <<patients, admissions, beds, bills, items, users>>
    /\ UNCHANGED <<hospitals, records, processed, webhookSecret>>

\* ---- updateUser ----
\* user.findUnique, user.update, audit row.  The read serves the tenant check
\* on hospitalId, which no operation writes, and the update names its row by
\* id, so read and write are taken as one step.  A field the body leaves
\* undefined is not written.
updateUser(r, u, id, role, active) ==
    /\ Free(r) /\ RoomForAudit
    /\ users[u].exists
    /\ LET user == TokenOf(u)
           req == UserReq("updateUser", user, id)
           log == auditMiddleware(auditLog, UserAtAuditHook, "PUT", "/users")
           existingUser == users[id]
       IN IF ~authorize(user, UserAdminRoles)
          THEN Respond(r, req, 403) /\ auditLog' = log /\ users' = users
          ELSE IF ~existingUser.exists
          THEN Respond(r, req, 404) /\ auditLog' = log /\ users' = users
          ELSE IF ~HasHospitalAccess(user, existingUser.hospitalId)
          THEN Respond(r, req, 403) /\ auditLog' = log /\ users' = users
          ELSE /\ users' = [users EXCEPT
                    ![id].role = IF role = "undefined" THEN @ ELSE role,
                    ![id].active = IF active = "undefined" THEN @ ELSE active = "true"]
               /\ AuditAndRespond(r, req, log, "UPDATE_USER", "USER", id, 200)
    /\ UNCHANGED <<patients, admissions, beds, bills, items>>
    /\ UNCHANGED <<hospitals, records, processed, webhookSecret>>

\* ---- deactivateUser ----
\* As updateUser, with the refusal of one's own id and active: false.
deactivateUser(r, u, id) ==
    /\ Free(r) /\ RoomForAudit
    /\ users[u].exists
    /\ LET user == TokenOf(u)
           req == UserReq("deactivateUser", user, id)
           log == auditMiddleware(auditLog, UserAtAuditHook, "PATCH", "/users")
           existingUser == users[id]
       IN IF ~authorize(user, UserAdminRoles)
          THEN Respond(r, req, 403) /\ auditLog' = log /\ users' = users
          ELSE IF ~existingUser.exists
          THEN Respond(r, req, 404) /\ auditLog' = log /\ users' = users
          ELSE IF ~HasHospitalAccess(user, existingUser.hospitalId)
          THEN Respond(r, req, 403) /\ auditLog' = log /\ users' = users
          ELSE IF id = user.id
          THEN Respond(r, req, 400) /\ auditLog' = log /\ users' = users
          ELSE /\ users' = [users EXCEPT ![id].active = FALSE]
               /\ AuditAndRespond(r, req, log, "DEACTIVATE_USER", "USER", id, 200)
    /\ UNCHANGED <<patients, admissions, beds, bills, items>>
    /\ UNCHANGED <<hospitals, records, processed, webhookSecret>>

(***************************************************************************)
(* Hospitals and their settings document (hospitalController,              *)
(* settingsController).  The settings column is a JSON object: each        *)
(* top-level key is absent or carries a value.  Of a hospital row the      *)
(* model keeps the active flag and the settings document.                  *)
(***************************************************************************)
SettingKeys == {"branding", "currency"}
SettingValues == {"a", "b"}
Absent == "absent"

SettingsDocs == [SettingKeys -> SettingValues \cup {Absent}]
EmptyDoc == [k \in SettingKeys |-> Absent]

\* The `settings` field of a request body: not given, or a document (the
\* requests of the model give value "b" to the keys they name).
NoBodySettings == [given |-> FALSE, doc |-> EmptyDoc]
RequestDocs == [SettingKeys -> {"b", Absent}]
BodySettings == {NoBodySettings} \cup {[given |-> TRUE, doc |-> d] : d \in RequestDocs}

NoHospitalRow == [exists |-> FALSE, active |-> FALSE, settings |-> EmptyDoc]

NurseH1 == Principal("u6", "NURSE", "H1")
HospitalPrincipals == {SuperAdmin, AdminH1, NurseH1}

\* What a settings request was answered with: nothing, the public branding,
\* or a hospital with its whole settings document.
NoResponse == [kind |-> "none", hospitalId |-> NoHospital, settings |-> EmptyDoc]

HospitalReq(op, user, hospitalId, settings, active) ==
    [op |-> op, pc |-> "start", at |-> "start", status |-> 0, user |-> user,
     hospitalId |-> hospitalId, settings |-> settings, active |-> active,
     existingSettings |-> EmptyDoc, response |-> NoResponse]

\* { ...existingSettings, ...settings }: a key the request names takes the
\* request's value, every other key keeps the existing one.
mergeSettings(existingSettings, settings) ==
    [k \in SettingKeys |-> IF settings[k] # Absent THEN settings[k] ELSE existingSettings[k]]

\* data: { ...(settings && { settings }) }: the column is set to the
\* request's document.
replaceSettings(existingSettings, settings) == settings

\* ---- updateHospital (PUT /hospitals/:id) ----
\* The router authenticates; the handler checks the tenant and calls
\* hospital.update, which throws when the row does not exist (caught: 500).
\* The handler has one await and no createAuditLog call.
updateHospital(r, user, id, settings, active) ==
    /\ Free(r)
    /\ auditLog' = auditMiddleware(auditLog, UserAtAuditHook, "PUT", "/hospitals/:id")
    /\ LET req == HospitalReq("updateHospital", user, id, settings, active)
       IN IF user.role # "SUPER_ADMIN" /\ user.hospitalId # id
          THEN Respond(r, req, 403) /\ hospitals' = hospitals
          ELSE IF ~hospitals[id].exists
          THEN Respond(r, req, 500) /\ hospitals' = hospitals
          ELSE /\ hospitals' = [hospitals EXCEPT
                    ![id].settings = IF settings.given
                                     THEN replaceSettings(@, settings.doc) ELSE @,
                    ![id].active = IF active = "undefined" THEN @ ELSE active = "true"]
               /\ Respond(r, req, 200)
    /\ UNCHANGED <<patients, admissions, beds, bills, items, users>>
    /\ UNCHANGED <<records, processed, webhookSecret>>

\* ---- deleteHospital (DELETE /hospitals/:id) ----
\* SUPER_ADMIN only; ?permanent=true deletes the row, otherwise the row is
\* made inactive.  Both writes throw when the row does not exist.  No
\* createAuditLog call.
deleteHospital(r, user, id, permanent) ==
    /\ Free(r)
    /\ auditLog' = auditMiddleware(auditLog, UserAtAuditHook, "DELETE", "/hospitals/:id")
    /\ LET req == HospitalReq("deleteHospital", user, id, NoBodySettings, "undefined")
       IN IF user.role # "SUPER_ADMIN"
          THEN Respond(r, req, 403) /\ hospitals' = hospitals
          ELSE IF ~hospitals[id].exists
          THEN Respond(r, req, 500) /\ hospitals' = hospitals
          ELSE /\ hospitals' = [hospitals EXCEPT ![id] =
                    IF permanent THEN NoHospitalRow ELSE [@ EXCEPT !.active = FALSE]]
               /\ Respond(r, req, 200)
    /\ UNCHANGED <<patients, admissions, beds, bills, items, users>>
    /\ UNCHANGED <<records, processed, webhookSecret>>

SettingsRoles == {"ADMIN", "SUPER_ADMIN"}

\* The hospital a settings request is about: the principal's, or for a
\* SUPER_ADMIN the one the request names, if it names one.
settingsHospitalId(user, named) ==
    IF user.role = "SUPER_ADMIN" /\ named # NoHospital THEN named ELSE user.hospitalId

\* ---- updateSettings (PUT /settings) ----
\* First step: the role check, the hospital, the body, hospital.findUnique.
updateSettingsRead(r, user, bodyHospital, settings) ==
    /\ Arrive(r, "PUT", "/settings")
    /\ LET hospitalId == settingsHospitalId(user, bodyHospital)
           req == HospitalReq("updateSettings", user, hospitalId, settings, "undefined")
       IN IF user.role \notin SettingsRoles THEN Respond(r, req, 403)
          ELSE IF hospitalId = NoHospital THEN Respond(r, req, 400)
          ELSE IF ~settings.given THEN Respond(r, req, 400)
          ELSE IF ~hospitals[hospitalId].exists THEN Respond(r, req, 404)
          ELSE Suspend(r, [req EXCEPT !.existingSettings = hospitals[hospitalId].settings],
                       "write")
    /\ UNCHANGED <<patients, admissions, beds, bills, items, users>>
    /\ UNCHANGED <<hospitals, records, processed, webhookSecret>>

\* Second step: hospital.update with the merge of the document that was
\* read and the request's, the audit row, the answer.  The update throws
\* when the row is gone (caught: 500).
updateSettingsWrite(r) ==
    /\ At(r, "updateSettings", "write")
    /\ LET req == reqs[r]
       IN IF ~hospitals[req.hospitalId].exists
          THEN Respond(r, req, 500) /\ hospitals' = hospitals /\ auditLog' = auditLog
          ELSE /\ hospitals' = [hospitals EXCEPT ![req.hospitalId].settings =
                                   mergeSettings(req.existingSettings, req.settings.doc)]
               /\ AuditAndRespond(r, req, auditLog, "UPDATE_SETTINGS", "HOSPITAL",
                                  req.hospitalId, 200)
    /\ UNCHANGED <<patients, admissions, beds, bills, items, users>>
    /\ UNCHANGED <<records, processed, webhookSecret>>

\* GET /settings is registered without authenticate, the only place that
\* sets req.user: whatever credential the request carries, req.user is
\* unset when the handler runs.
UserAtGetSettings(tokenUser) == NoUser

\* The public answer carries the branding only.
brandingOnly(settings) ==
    [k \in SettingKeys |-> IF k = "branding" THEN settings[k] ELSE Absent]

\* ---- getSettings (GET /settings) ----
\* Without req.user: hospital.findFirst({active: true}), any active
\* hospital, and the answer is its branding (the defaults when there is
\* none).  With req.user: the principal's hospital (for a SUPER_ADMIN the
\* one named by ?hospitalId), findUnique, the whole settings document.
getSettings(r, tokenUser, queryHospital) ==
    /\ Free(r)
    /\ auditLog' = auditMiddleware(auditLog, UserAtAuditHook, "GET", "/settings")
    /\ LET reqUser == UserAtGetSettings(tokenUser)
           hospitalId == settingsHospitalId(reqUser, queryHospital)
           req == HospitalReq("getSettings", tokenUser, queryHospital, NoBodySettings,
                              "undefined")
       IN IF reqUser = NoUser
          THEN \/ \E h \in Hospitals :
                     /\ hospitals[h].exists /\ hospitals[h].active
                     /\ Respond(r, [req EXCEPT !.response =
                                       [kind |-> "branding", hospitalId |-> h,
                                        settings |-> brandingOnly(hospitals[h].settings)]],
                                200)
               \/ /\ \A h \in Hospitals : ~(hospitals[h].exists /\ hospitals[h].active)
                  /\ Respond(r, [req EXCEPT !.response =
                                    [kind |-> "branding", hospitalId |-> NoHospital,
                                     settings |-> EmptyDoc]], 200)
          ELSE IF hospitalId = NoHospital THEN Respond(r, req, 400)
          ELSE IF ~hospitals[hospitalId].exists THEN Respond(r, req, 404)
          ELSE Respond(r, [req EXCEPT !.response =
                              [kind |-> "full", hospitalId |-> hospitalId,
                               settings |-> hospitals[hospitalId].settings]], 200)
    /\ UNCHANGED <<patients, admissions, beds, bills, items, users>>
    /\ UNCHANGED <<hospitals, records, processed, webhookSecret>>

NoSecret == "unset"

(***************************************************************************)
(* Payment webhook (routes/payment.routes.ts, POST /payments/webhook).     *)
(* A body is an event name with or without its data object.  The HMAC of   *)
(* a body under a key is modelled as the pair of the two: equal digests    *)
(* come from equal keys and equal bodies only.                             *)
(***************************************************************************)
WebhookEvents == {"charge.success", "charge.failed", "unknown"}
WebhookBodies == [event : WebhookEvents, hasData : BOOLEAN]
WebhookKeys == {"k1", "k2"}

\* crypto.createHmac('sha512', key).update(JSON.stringify(body)).digest('hex')
hmac(key, body) == [key |-> key, body |-> body]

NoSignature == [key |-> "none", body |-> [event |-> "none", hasData |-> FALSE]]
Signatures == {NoSignature} \cup {hmac(k, b) : k \in WebhookKeys, b \in WebhookBodies}

WebhookReq(body, signature) ==
    [op |-> "webhook", pc |-> "start", at |-> "start", status |-> 0,
     body |-> body, signature |-> signature, threw |-> FALSE]

\* The signature is compared only `if (PAYSTACK_WEBHOOK_SECRET && signature)`.
signatureRejected(secret, body, signature) ==
    secret # NoSecret /\ signature # NoSignature /\ hmac(secret, body) # signature

\* The switch reads event.data.reference for the charge and transfer
\* events: without a data object that read throws.
processingThrows(body) == body.event # "unknown" /\ ~body.hasData

\* ---- POST /payments/webhook ----
\* The handler has no await.  `processed` is the set of bodies whose event
\* reached the switch.
webhook(r, body, signature) ==
    /\ Free(r)
    /\ auditLog' = auditMiddleware(auditLog, UserAtAuditHook, "POST", "/payments/webhook")
    /\ LET req == WebhookReq(body, signature)
       IN IF signatureRejected(webhookSecret, body, signature)
          THEN Respond(r, req, 401) /\ processed' = processed
          ELSE /\ processed' = processed \cup {body}
               /\ Respond(r, [req EXCEPT !.threw = processingThrows(body)], 200)
    /\ UNCHANGED <<patients, admissions, beds, bills, items, users>>
    /\ UNCHANGED <<hospitals, records, webhookSecret>>

(***************************************************************************)
(* Clinical records that reference other rows by id (labController,        *)
(* prescriptionController, nursingRoundController).  A created record is   *)
(* kept with the ids it links.  No operation of the clinical specification *)
(* writes the visits, admissions or vital signs that are read, so the      *)
(* reads of a handler are taken as its first step and the create, the      *)
(* audit row and the answer as its second.                                 *)
(***************************************************************************)
VitalIds == {"vs1", "vs2"}
NoVital == "none"

\* Vital signs vs1 were recorded in hospital H1, vs2 in hospital H2.
vitalSigns == [v \in VitalIds |-> [exists |-> TRUE, hospitalId |-> IF v = "vs1" THEN "H1" ELSE "H2"]]

ClinicalReq(op, user, ref, patientId, vitalSignsId) ==
    [op |-> op, pc |-> "start", at |-> "start", status |-> 0, user |-> user,
     ref |-> ref, patientId |-> patientId, vitalSignsId |-> vitalSignsId]

RecordIds == {"rec1", "rec2", "rec3", "rec4"}

\* The id the storage gives to the next record.
NewRecordId == CHOOSE id \in RecordIds : \A rec \in records : rec.id # id

ClinicalRecord(kind, ref, patientId, vitalSignsId) ==
    [id |-> NewRecordId, kind |-> kind, ref |-> ref, patientId |-> patientId,
     vitalSignsId |-> vitalSignsId]

OrderingRoles == {"DOCTOR", "ADMIN", "SUPER_ADMIN"}
RoundRoles == {"NURSE", "ADMIN", "SUPER_ADMIN"}

\* createLabOrder and createPrescription, first step: the router's
\* authenticate (401 without a principal) and authorize, visit.findUnique,
\* 404, the tenant check on the visit.
visitLookup(r, op, path, user, visitId, patientId) ==
    /\ Arrive(r, "POST", path)
    /\ LET req == ClinicalReq(op, user, visitId, patientId, NoVital)
           visit == visits[visitId]
       IN IF user = NoUser THEN Respond(r, req, 401)
          ELSE IF ~authorize(user, OrderingRoles) THEN Respond(r, req, 403)
          ELSE IF ~visit.exists THEN Respond(r, req, 404)
          ELSE IF ~HasHospitalAccess(user, visit.hospitalId) THEN Respond(r, req, 403)
          ELSE Suspend(r, req, "create")
    /\ UNCHANGED <<patients, admissions, beds, bills, items, users>>
    /\ UNCHANGED <<hospitals, records, processed, webhookSecret>>

createLabOrderRead(r, user, visitId, patientId) ==
    visitLookup(r, "createLabOrder", "/lab-orders", user, visitId, patientId)

createPrescriptionRead(r, user, visitId, patientId) ==
    visitLookup(r, "createPrescription", "/prescriptions", user, visitId, patientId)

ClinicalKind(op) ==
    CASE op = "createLabOrder" -> "LAB_ORDER"
      [] op = "createPrescription" -> "PRESCRIPTION"
      [] OTHER -> "NURSING_ROUND"

ClinicalAction(op) ==
    CASE op = "createLabOrder" -> "CREATE_LAB_ORDER"
      [] op = "createPrescription" -> "CREATE_PRESCRIPTION"
      [] OTHER -> "RECORD_NURSING_ROUND"

\* Second step: the create with the body's patientId, which throws when
\* that patient does not exist (caught: 500); the audit row; 201.
createForVisit(r) ==
    /\ reqs[r].op \in {"createLabOrder", "createPrescription"}
    /\ reqs[r].pc = "create"
    /\ LET req == reqs[r]
       IN IF ~patients[req.patientId].exists
          THEN Respond(r, req, 500) /\ auditLog' = auditLog /\ records' = records
          ELSE /\ records' = records \cup
                    {ClinicalRecord(ClinicalKind(req.op), req.ref, req.patientId, NoVital)}
               /\ AuditAndRespond(r, req, auditLog, ClinicalAction(req.op),
                                  ClinicalKind(req.op), NewRecordId, 201)
    /\ UNCHANGED <<patients, admissions, beds, bills, items, users>>
    /\ UNCHANGED <<hospitals, processed, webhookSecret>>

\* ---- recordRound (POST /rounds) ----
\* First step: admission.findUnique, 404, the tenant check on the
\* admission; if the body names vital signs, vitalSigns.findUnique and 404.
recordRoundRead(r, user, admissionId, vitalSignsId) ==
    /\ Arrive(r, "POST", "/rounds")
    /\ LET req == ClinicalReq("recordRound", user, admissionId, "none", vitalSignsId)
           admission == admissions[admissionId]
       IN IF user = NoUser THEN Respond(r, req, 401)
          ELSE IF ~authorize(user, RoundRoles) THEN Respond(r, req, 403)
          ELSE IF admission.status = "NONE" THEN Respond(r, req, 404)
          ELSE IF ~HasHospitalAccess(user, admission.hospitalId) THEN Respond(r, req, 403)
          ELSE IF vitalSignsId # NoVital /\ ~vitalSigns[vitalSignsId].exists
          THEN Respond(r, req, 404)
          ELSE Suspend(r, req, "create")
    /\ UNCHANGED <<patients, admissions, beds, bills, items, users>>
    /\ UNCHANGED <<hospitals, records, processed, webhookSecret>>

\* Second step: nursingRound.create with the admission's patient, the audit
\* row, 201.
recordRoundCreate(r) ==
    /\ At(r, "recordRound", "create")
    /\ records' = records \cup
          {ClinicalRecord("NURSING_ROUND", reqs[r].ref, "none", reqs[r].vitalSignsId)}
    /\ AuditAndRespond(r, reqs[r], auditLog, "RECORD_NURSING_ROUND", "NURSING_ROUND",
                       NewRecordId, 201)
    /\ UNCHANGED <<patients, admissions, beds, bills, items, users>>
    /\ UNCHANGED <<hospitals, processed, webhookSecret>>

(***************************************************************************)
(* The bed-occupancy figures of the dashboard (getDashboardStats): a       *)
(* function of the two counts bed.count returned.  Math.round rounds to    *)
(* the nearest integer, a half upwards.                                    *)
(***************************************************************************)
MaxBeds == 9

bedOccupancyTruncated(totalBeds, occupiedBeds) ==
    [total |-> totalBeds, occupied |-> occupiedBeds,
     available |-> totalBeds - occupiedBeds,
     occupancyPercentage |-> IF totalBeds > 0 THEN (100 * occupiedBeds) \div totalBeds ELSE 0]

bedOccupancy(totalBeds, occupiedBeds) ==
    [total |-> totalBeds, occupied |-> occupiedBeds,
     available |-> totalBeds - occupiedBeds,
     occupancyPercentage |->
         IF totalBeds > 0 THEN (200 * occupiedBeds + totalBeds) \div (2 * totalBeds) ELSE 0]

NoOccupancy == [total |-> 0, occupied |-> 0, available |-> 0, occupancyPercentage |-> -1]

OccupancyReq(totalBeds, occupiedBeds) ==
    [op |-> "bedOccupancy", pc |-> "start", at |-> "start", status |-> 0,
     totalBeds |-> totalBeds, occupiedBeds |-> occupiedBeds, bedOccupancy |-> NoOccupancy]

\* The figures are computed from the counts and put in the answer.
computeBedOccupancy ==
    /\ last.op = "bedOccupancy" /\ last.pc = "start"
    /\ last' = [last EXCEPT !.pc = "done", !.status = 200,
                            !.bedOccupancy = bedOccupancy(last.totalBeds, last.occupiedBeds)]
    /\ UNCHANGED <<patients, admissions, beds, bills, items, users, auditLog, reqs>>
    /\ UNCHANGED <<hospitals, records, processed, webhookSecret>>

(***************************************************************************)
(* Initial states.  Init is the empty database.  Each specification starts *)
(* from a database its operations (or the ones that create its rows) can   *)
(* produce.                                                                *)
(***************************************************************************)
Init ==
    /\ patients = [p \in PatientIds |-> NoPatient]
    /\ admissions = [a \in AdmissionIds |-> NoAdmissionRow]
    /\ beds = [b \in BedIds |-> FreeBed("H1")]
    /\ bills = [b \in BillIds |-> NoBill]
    /\ items = [i \in ItemIds |-> NoItem]
    /\ users = [u \in UserIds |-> NoUserRow]
    /\ auditLog = <<>>
    /\ reqs = [r \in Slots |-> Idle]
    /\ last = Idle
    /\ hospitals = [h \in Hospitals |-> NoHospitalRow]
    /\ records = {}
    /\ processed = {}
    /\ webhookSecret = NoSecret

\* One patient registered in H1.
InitPatient ==
    /\ patients = [p \in PatientIds |->
                     IF p = "p1" THEN [exists |-> TRUE, hospitalId |-> "H1", name |-> "n1"]
                     ELSE NoPatient]
    /\ admissions = [a \in AdmissionIds |-> NoAdmissionRow]
    /\ beds = [b \in BedIds |-> FreeBed("H1")]
    /\ bills = [b \in BillIds |-> NoBill]
    /\ items = [i \in ItemIds |-> NoItem]
    /\ users = [u \in UserIds |-> NoUserRow]
    /\ auditLog = <<>>
    /\ reqs = [r \in Slots |-> Idle]
    /\ last = Idle
    /\ hospitals = [h \in Hospitals |-> NoHospitalRow]
    /\ records = {}
    /\ processed = {}
    /\ webhookSecret = NoSecret

NextPatient ==
    \E r \in Slots :
        \/ \E u \in Principals, id \in PatientIds, h \in Hospitals \cup {NoHospital}, n \in Names :
              createPatient(r, u, id, h, n)
        \/ \E u \in Principals, id \in PatientIds : getPatientById(r, u, id)
        \/ \E u \in Principals : getPatients(r, u)
        \/ \E u \in Principals : getDashboardStats(r, u)
        \/ \E u \in Principals, id \in PatientIds, n \in Names : updatePatientRead(r, u, id, n)
        \/ \E u \in Principals, id \in PatientIds : deletePatientRead(r, u, id)
        \/ updatePatientWrite(r)
        \/ deletePatientWrite(r)
        \/ patientAudit(r)

SpecPatient == InitPatient /\ [][NextPatient]_vars

\* A ward of hospital H1 with two beds; one patient registered in each
\* hospital; either no admission yet, or a1 admitted to bed b1 and a2 either
\* pending (in H1, or in H2 for patient p2) or discharged from bed b2.
InitAdmissions ==
    /\ patients = [p \in PatientIds |->
                     [exists |-> TRUE, hospitalId |-> IF p = "p1" THEN "H1" ELSE "H2",
                      name |-> "n1"]]
    /\ \/ /\ admissions = [a \in AdmissionIds |-> NoAdmissionRow]
          /\ beds = [b \in BedIds |-> FreeBed("H1")]
       \/ /\ \E second \in {[status |-> "PENDING", hospitalId |-> "H1", bedId |-> NoBed],
                             [status |-> "PENDING", hospitalId |-> "H2", bedId |-> NoBed],
                             [status |-> "DISCHARGED", hospitalId |-> "H1", bedId |-> "b2"]} :
                admissions = [a \in AdmissionIds |->
                    IF a = "a1" THEN [status |-> "ADMITTED", hospitalId |-> "H1", bedId |-> "b1"]
                    ELSE second]
          /\ beds = [b \in BedIds |->
                IF b = "b1" THEN [status |-> "OCCUPIED", currentAdmissionId |-> "a1",
                                  hospitalId |-> "H1"]
                ELSE FreeBed("H1")]
    /\ bills = [b \in BillIds |-> NoBill]
    /\ items = [i \in ItemIds |-> NoItem]
    /\ users = [u \in UserIds |-> NoUserRow]
    /\ auditLog = <<>>
    /\ reqs = [r \in Slots |-> Idle]
    /\ last = Idle
    /\ hospitals = [h \in Hospitals |-> NoHospitalRow]
    /\ records = {}
    /\ processed = {}
    /\ webhookSecret = NoSecret

NextAdmissions ==
    \E r \in Slots :
        \/ \E u \in BedPrincipals, p \in PatientIds : createAdmission(r, u, p)
        \/ \E u \in BedPrincipals, a \in AdmissionIds, b \in BedIds :
              assignBedReadAdmission(r, u, a, b)
        \/ assignBedReadBed(r)
        \/ assignBedFreeOld(r)
        \/ assignBedTransaction(r)
        \/ \E u \in BedPrincipals, a \in AdmissionIds : dischargePatientRead(r, u, a)
        \/ dischargePatientTransaction(r)
        \/ \E u \in BedPrincipals, b \in BedIds, s \in RequestedBedStatuses :
              updateBedStatusRead(r, u, b, s)
        \/ updateBedStatusWrite(r)
        \/ storageFails(r)

SpecAdmissions == InitAdmissions /\ [][NextAdmissions]_vars

\* No request is being handled: the next one is handled alone.
Quiet == \A s \in Slots : Free(s)

InitBilling == Init

NextBilling ==
    \E r \in Slots :
        \/ \E u \in BillingPrincipals, v \in VisitIds, il \in ItemLists : createBill(r, u, v, il)
        \/ \E u \in BillingPrincipals, b \in BillIds, am \in Amounts : addPaymentRead(r, u, b, am)
        \/ addPaymentCreate(r)
        \/ addPaymentUpdate(r)
        \/ billingStorageFails(r)

SpecBilling == InitBilling /\ [][NextBilling]_vars

\* One request after another, every storage call succeeding.
NextBillingSerial ==
    \E r \in Slots :
        \/ Quiet /\ \E u \in BillingPrincipals, v \in VisitIds, il \in ItemLists :
                        createBill(r, u, v, il)
        \/ Quiet /\ \E u \in BillingPrincipals, b \in BillIds, am \in Amounts :
                        addPaymentRead(r, u, b, am)
        \/ addPaymentCreate(r)
        \/ addPaymentUpdate(r)

SpecBillingSerial == InitBilling /\ [][NextBillingSerial]_vars

\* Item i1 of hospital H1 is in store, i2 is not.
InitStock ==
    /\ patients = [p \in PatientIds |-> NoPatient]
    /\ admissions = [a \in AdmissionIds |-> NoAdmissionRow]
    /\ beds = [b \in BedIds |-> FreeBed("H1")]
    /\ bills = [b \in BillIds |-> NoBill]
    /\ \E st \in InitialStocks :
          items = [i \in ItemIds |->
                      IF i = "i1" THEN [exists |-> TRUE, hospitalId |-> "H1", stock |-> st]
                      ELSE NoItem]
    /\ users = [u \in UserIds |-> NoUserRow]
    /\ auditLog = <<>>
    /\ reqs = [r \in Slots |-> Idle]
    /\ last = Idle
    /\ hospitals = [h \in Hospitals |-> NoHospitalRow]
    /\ records = {}
    /\ processed = {}
    /\ webhookSecret = NoSecret

\* One request after another, every storage call succeeding.
NextStockSerial ==
    \E r \in Slots :
        \/ Quiet /\ \E u \in StockPrincipals, i \in ItemIds, t \in StockTypes, ad \in Adjustments :
                        updateStockRead(r, u, i, t, ad)
        \/ updateStockWrite(r)

SpecStockSerial == InitStock /\ [][NextStockSerial]_vars

\* Requests overlap: a second updateStock may read before the first writes.
NextStock ==
    \E r \in Slots :
        \/ \E u \in StockPrincipals, i \in ItemIds, t \in StockTypes, ad \in Adjustments :
              updateStockRead(r, u, i, t, ad)
        \/ updateStockWrite(r)

SpecStock == InitStock /\ [][NextStock]_vars

\* One request after another; the audit write may fail.
NextStockAudit ==
    \E r \in Slots :
        \/ Quiet /\ \E u \in StockPrincipals, i \in ItemIds, t \in StockTypes, ad \in Adjustments :
                        updateStockRead(r, u, i, t, ad)
        \/ updateStockWrite(r)
        \/ updateStockWriteAuditFails(r)

SpecStockAudit == InitStock /\ [][NextStockAudit]_vars

InitSetup == Init

NextSetup ==
    \E r \in Slots :
        \/ \E bc \in BOOLEAN, em \in Emails : initialSetupCount(r, bc, em)
        \/ initialSetupCreate(r)
        \/ initialSetupStoreToken(r)
        \/ setupStorageFails(r)
        \/ \E u \in UserIds, bc \in BOOLEAN, ro \in UserRoles, h \in Hospitals \cup {NoHospital},
              em \in Emails :
              createUser(r, u, bc, ro, h, em)
        \/ \E u \in UserIds, id \in UserIds, ro \in BodyRoles, ac \in BodyActive :
              updateUser(r, u, id, ro, ac)
        \/ \E u \in UserIds, id \in UserIds : deactivateUser(r, u, id)
        \/ \E u \in UserIds, id \in UserIds : getUserById(r, u, id)

SpecSetup == InitSetup /\ [][NextSetup]_vars

\* The user table after the setup and one createUser: the SUPER_ADMIN u0 and
\* the ADMIN u1 of hospital H1; row u2 is not there yet.
InitUsers ==
    /\ patients = [p \in PatientIds |-> NoPatient]
    /\ admissions = [a \in AdmissionIds |-> NoAdmissionRow]
    /\ beds = [b \in BedIds |-> FreeBed("H1")]
    /\ bills = [b \in BillIds |-> NoBill]
    /\ items = [i \in ItemIds |-> NoItem]
    /\ users = [u \in UserIds |->
                  IF u = "u0" THEN [exists |-> TRUE, role |-> "SUPER_ADMIN",
                                    hospitalId |-> NoHospital, active |-> TRUE, email |-> "e0"]
                  ELSE IF u = "u1" THEN [exists |-> TRUE, role |-> "ADMIN",
                                         hospitalId |-> "H1", active |-> TRUE, email |-> "e1"]
                  ELSE NoUserRow]
    /\ auditLog = <<>>
    /\ reqs = [r \in Slots |-> Idle]
    /\ last = Idle
    /\ hospitals = [h \in Hospitals |-> NoHospitalRow]
    /\ records = {}
    /\ processed = {}
    /\ webhookSecret = NoSecret

NextUsers ==
    \E r \in Slots :
        \/ \E u \in UserIds, bc \in BOOLEAN, ro \in UserRoles, h \in Hospitals \cup {NoHospital},
              em \in Emails :
              createUser(r, u, bc, ro, h, em)
        \/ \E u \in UserIds, id \in UserIds, ro \in BodyRoles, ac \in BodyActive :
              updateUser(r, u, id, ro, ac)
        \/ \E u \in UserIds, id \in UserIds : deactivateUser(r, u, id)
        \/ \E u \in UserIds, id \in UserIds : getUserById(r, u, id)

SpecUsers == InitUsers /\ [][NextUsers]_vars

\* Two hospitals: H1 with a settings document, H2 with an empty one.
InitHospital ==
    /\ patients = [p \in PatientIds |-> NoPatient]
    /\ admissions = [a \in AdmissionIds |-> NoAdmissionRow]
    /\ beds = [b \in BedIds |-> FreeBed("H1")]
    /\ bills = [b \in BillIds |-> NoBill]
    /\ items = [i \in ItemIds |-> NoItem]
    /\ users = [u \in UserIds |-> NoUserRow]
    /\ auditLog = <<>>
    /\ reqs = [r \in Slots |-> Idle]
    /\ last = Idle
    /\ hospitals = [h \in Hospitals |->
                      [exists |-> TRUE, active |-> TRUE,
                       settings |-> IF h = "H1" THEN [k \in SettingKeys |-> "a"]
                                    ELSE EmptyDoc]]
    /\ records = {}
    /\ processed = {}
    /\ webhookSecret = NoSecret

\* One request after another.
NextHospital ==
    \E r \in Slots :
        \/ Quiet /\ \E u \in HospitalPrincipals, h \in Hospitals, s \in BodySettings,
                        ac \in BodyActive :
                        updateHospital(r, u, h, s, ac)
        \/ Quiet /\ \E u \in HospitalPrincipals, h \in Hospitals, pm \in BOOLEAN :
                        deleteHospital(r, u, h, pm)
        \/ Quiet /\ \E u \in HospitalPrincipals, h \in Hospitals \cup {NoHospital},
                        s \in BodySettings :
                        updateSettingsRead(r, u, h, s)
        \/ updateSettingsWrite(r)
        \/ Quiet /\ \E u \in HospitalPrincipals \cup {NoUser},
                        h \in Hospitals \cup {NoHospital} :
                        getSettings(r, u, h)

SpecHospital == InitHospital /\ [][NextHospital]_vars

\* The webhook secret is configured (key k1) or not.
InitWebhook ==
    /\ patients = [p \in PatientIds |-> NoPatient]
    /\ admissions = [a \in AdmissionIds |-> NoAdmissionRow]
    /\ beds = [b \in BedIds |-> FreeBed("H1")]
    /\ bills = [b \in BillIds |-> NoBill]
    /\ items = [i \in ItemIds |-> NoItem]
    /\ users = [u \in UserIds |-> NoUserRow]
    /\ auditLog = <<>>
    /\ reqs = [r \in Slots |-> Idle]
    /\ last = Idle
    /\ hospitals = [h \in Hospitals |-> NoHospitalRow]
    /\ records = {}
    /\ processed = {}
    /\ webhookSecret \in {NoSecret, "k1"}

NextWebhook ==
    \E r \in Slots : \E b \in WebhookBodies, s \in Signatures : webhook(r, b, s)

SpecWebhook == InitWebhook /\ [][NextWebhook]_vars

\* Patient p1 registered in hospital H1 and, in hospital H2, patient p2 or
\* nobody; admission a1 of hospital H1 in bed b1; visit v1 of hospital H1.
InitClinical ==
    /\ \E second \in {[exists |-> TRUE, hospitalId |-> "H2", name |-> "n1"], NoPatient} :
          patients = [p \in PatientIds |->
                        IF p = "p1" THEN [exists |-> TRUE, hospitalId |-> "H1", name |-> "n1"]
                        ELSE second]
    /\ admissions = [a \in AdmissionIds |->
                       IF a = "a1" THEN [status |-> "ADMITTED", hospitalId |-> "H1", bedId |-> "b1"]
                       ELSE NoAdmissionRow]
    /\ beds = [b \in BedIds |->
                 IF b = "b1" THEN [status |-> "OCCUPIED", currentAdmissionId |-> "a1",
                                   hospitalId |-> "H1"]
                 ELSE FreeBed("H1")]
    /\ bills = [b \in BillIds |-> NoBill]
    /\ items = [i \in ItemIds |-> NoItem]
    /\ users = [u \in UserIds |-> NoUserRow]
    /\ auditLog = <<>>
    /\ reqs = [r \in Slots |-> Idle]
    /\ last = Idle
    /\ hospitals = [h \in Hospitals |-> NoHospitalRow]
    /\ records = {}
    /\ processed = {}
    /\ webhookSecret = NoSecret

NextClinical ==
    \E r \in Slots :
        \/ \E u \in Principals \cup {NoUser}, v \in VisitIds, p \in PatientIds :
              createLabOrderRead(r, u, v, p)
        \/ \E u \in Principals \cup {NoUser}, v \in VisitIds, p \in PatientIds :
              createPrescriptionRead(r, u, v, p)
        \/ createForVisit(r)
        \/ \E u \in Principals \cup {NoUser}, a \in AdmissionIds, vs \in VitalIds \cup {NoVital} :
              recordRoundRead(r, u, a, vs)
        \/ recordRoundCreate(r)

SpecClinical == InitClinical /\ [][NextClinical]_vars

\* The two counts of a hospital's beds: any total up to MaxBeds, any number
\* of them occupied.
InitOccupancy ==
    /\ patients = [p \in PatientIds |-> NoPatient]
    /\ admissions = [a \in AdmissionIds |-> NoAdmissionRow]
    /\ beds = [b \in BedIds |-> FreeBed("H1")]
    /\ bills = [b \in BillIds |-> NoBill]
    /\ items = [i \in ItemIds |-> NoItem]
    /\ users = [u \in UserIds |-> NoUserRow]
    /\ auditLog = <<>>
    /\ reqs = [r \in Slots |-> Idle]
    /\ \E t \in 0..MaxBeds : \E o \in 0..t : last = OccupancyReq(t, o)
    /\ hospitals = [h \in Hospitals |-> NoHospitalRow]
    /\ records = {}
    /\ processed = {}
    /\ webhookSecret = NoSecret

NextOccupancy == computeBedOccupancy

SpecOccupancy == InitOccupancy /\ [][NextOccupancy]_vars

(***************************************************************************)
(* The access policy as the specification states it: the distinguished     *)
(* role always passes, every other role passes iff its tenant is the       *)
(* resource's.                                                             *)
(***************************************************************************)
PolicyAllows(user, resourceHospitalId) ==
    user.role = "SUPER_ADMIN" \/ user.hospitalId = resourceHospitalId

\* A step in which a request is answered: the answer is new, or a suspended
\* handler leaves its slot.  (A request refused on arrival with the very
\* answer of the one before it changes nothing at all.)
Answers == last' # last \/ \E r \in Slots : reqs[r] # Idle /\ reqs'[r] = Idle

PatientByIdOps == {"getPatientById", "updatePatient", "deletePatient"}

C2_BedHeldByAtMostOneAdmitted ==
    \A b \in BedIds :
        Cardinality({a \in AdmissionIds :
                        admissions[a].status = "ADMITTED" /\ admissions[a].bedId = b}) <= 1

\* The writes of a moving assignBed (release the old bed, occupy the new bed,
\* update the admission) that an answered request has applied.
ReassignWritesApplied(req) ==
    IF req.at # "transaction" THEN {}
    ELSE IF req.status = 200 THEN {"release", "occupy", "admission"}
    ELSE {"release"}

\* C3: an assignBed on an admission that already held a bed ends with all three
\* of its writes applied or with none of them.
C3_ReassignAtomic ==
    (last.op = "assignBed" /\ last.existingAdmission.bedId # NoBed)
        => ReassignWritesApplied(last) \in {{}, {"release", "occupy", "admission"}}

\* C5: an assignBed that finds the bed not AVAILABLE, or in another hospital than
\* the admission, is rejected in the step that read the bed, and that step
\* changes no admission, no bed and no audit row.
C5_AssignRejectedUnlessAvailable ==
    [][ \A r \in Slots :
          (/\ reqs[r].op = "assignBed" /\ reqs[r].pc = "readBed"
           /\ reqs'[r] # reqs[r]
           /\ \/ beds[reqs[r].bed].status # "AVAILABLE"
              \/ beds[reqs[r].bed].hospitalId # admissions[reqs[r].adm].hospitalId)
          => /\ reqs'[r] = Idle /\ Answers
             /\ last'.op = "assignBed" /\ last'.status \in {400, 500}
             /\ admissions' = admissions /\ beds' = beds /\ auditLog' = auditLog
      ]_vars

\* C5 witness: assignBed of a bed occupied by another admission was answered 400.
C5_Witness ==
    /\ last.op = "assignBed" /\ last.at = "readBed" /\ last.status = 400
    /\ beds[last.bed].status = "OCCUPIED"
    /\ beds[last.bed].currentAdmissionId \notin {NoAdmission, last.adm}

\* C6: a step makes an admission DISCHARGED only if no bed is left OCCUPIED on
\* its behalf, and a discharge frees a bed only if no ADMITTED admission still
\* holds that bed.
C6_DischargeAllOrNothing ==
    [][ /\ \A a \in AdmissionIds :
              (admissions[a].status # "DISCHARGED" /\ admissions'[a].status = "DISCHARGED")
                  => \A b \in BedIds :
                        ~(beds'[b].status = "OCCUPIED" /\ beds'[b].currentAdmissionId = a)
        /\ \A r \in Slots :
              (reqs[r].op = "dischargePatient" /\ reqs[r].pc = "transaction"
                 /\ reqs'[r] # reqs[r])
                  => \A b \in BedIds :
                        (beds'[b] # beds[b]) =>
                            \A a \in AdmissionIds :
                                ~(admissions'[a].status = "ADMITTED" /\ admissions'[a].bedId = b)
      ]_vars

\* C7: dischargePatient on an admission that is already DISCHARGED goes no
\* further than reading it: it is answered 400 (403 to a principal of another
\* hospital, whom the tenant check stops first), never 200, and the step
\* changes no admission, no bed and no audit row.
C7_DoubleDischargeRejected ==
    [][ /\ \A r \in Slots :
              (reqs[r] = Idle /\ reqs'[r].op = "dischargePatient")
                  => admissions[reqs'[r].adm].status # "DISCHARGED"
        /\ (Answers /\ last'.op = "dischargePatient"
                    /\ last'.existingAdmission.status = "DISCHARGED")
              => /\ last'.at = "start"
                 /\ IF PolicyAllows(last'.user, last'.existingAdmission.hospitalId)
                    THEN last'.status = 400 ELSE last'.status = 403
                 /\ admissions' = admissions /\ beds' = beds /\ auditLog' = auditLog
      ]_vars

\* C7 witness: a second discharge of a discharged admission was answered 400.
C7_Witness ==
    /\ last.op = "dischargePatient" /\ last.status = 400
    /\ last.existingAdmission.status = "DISCHARGED"
    /\ admissions[last.adm].status = "DISCHARGED"

\* C4: whenever no addPayment request is in flight, the paidAmount of every
\* billing record is the sum of the amounts of its stored payments.
C4_PaidAmountIsSumOfPayments ==
    (\A r \in Slots : reqs[r].op # "addPayment")
        => \A b \in BillIds :
              bills[b].exists => bills[b].paidAmount = SumSeq(bills[b].payments)

\* C8: when payments are applied one after another to a bill created with
\* total T, each accepted payment leaves paidAmount equal to the sum of all
\* the payments made so far, and the status PAID if paidAmount >= T, else
\* PARTIAL if paidAmount > 0, else what it was before that payment.
C8_SequentialPayments ==
    [][ (Answers /\ last'.op = "addPayment" /\ last'.status = 201)
          => LET after == bills'[last'.bill]
                 before == bills[last'.bill]
             IN /\ after.paidAmount = SumSeq(after.payments)
                /\ after.payments[Len(after.payments)] = last'.amount
                /\ after.totalAmount = before.totalAmount
                /\ after.status = IF after.paidAmount >= after.totalAmount THEN "PAID"
                                  ELSE IF after.paidAmount > 0 THEN "PARTIAL"
                                  ELSE before.status
      ]_vars

\* C8 witness: a second or later payment completed the bill's total.
C8_Witness ==
    /\ last.op = "addPayment" /\ last.status = 201
    /\ Len(bills[last.bill].payments) >= 2
    /\ bills[last.bill].paidAmount = bills[last.bill].totalAmount
    /\ bills[last.bill].status = "PAID"

\* C9: updateStock SET x answered 200 and then, next, updateStock ADD y on the
\* same item answered 200 leave the item's stock at x + y; updateStock
\* SUBTRACT z with z above the stock that is read is rejected (400 for a
\* principal who may adjust the item) and the stock is unchanged.
C9_StockAdjustment ==
    [][ /\ (Answers /\ last'.op = "updateStock" /\ last'.status = 200 /\ last'.type = "ADD"
                    /\ last'.after.type = "SET" /\ last'.after.status = 200
                    /\ last'.after.id = last'.id)
              => items'[last'.id].stock = last'.after.adjustment + last'.adjustment
        /\ \A r \in Slots :
              (reqs[r] = Idle /\ reqs'[r] # Idle /\ reqs'[r].op = "updateStock"
                  /\ reqs'[r].type = "SUBTRACT")
                  => reqs'[r].adjustment <= items[reqs'[r].id].stock
        /\ (Answers /\ last'.op = "updateStock" /\ last'.at = "start"
                    /\ last'.type = "SUBTRACT" /\ items[last'.id].exists
                    /\ last'.adjustment > items[last'.id].stock)
              => /\ items' = items
                 /\ IF last'.user.role \in {"PHARMACIST", "ADMIN", "SUPER_ADMIN"}
                       /\ PolicyAllows(last'.user, items[last'.id].hospitalId)
                    THEN last'.status = 400 ELSE last'.status = 403
      ]_vars

\* C9 witness: SET x then ADD y, both answered 200, with x and y not zero, and
\* the stock is x + y.
C9_Witness ==
    /\ last.op = "updateStock" /\ last.status = 200 /\ last.type = "ADD"
    /\ last.after.type = "SET" /\ last.after.status = 200 /\ last.after.id = last.id
    /\ last.adjustment # 0 /\ last.after.adjustment # 0
    /\ items[last.id].stock = last.after.adjustment + last.adjustment

UsersExist == \E u \in UserIds : users[u].exists

\* C10: initialSetup goes past its count only when no user exists, and then it
\* creates a SUPER_ADMIN and answers 201 with a credential of that user that the
\* role gates accept; whenever a user exists it answers 403 and leaves the user
\* table as it is, whatever the body; and no step of any operation takes the
\* user table from some user back to none.
C10_SetupOnlyWithoutUsers ==
    [][ /\ \A r \in Slots :
              (reqs[r] = Idle /\ reqs'[r] # Idle /\ reqs'[r].op = "initialSetup")
                  => ~UsersExist
        /\ (Answers /\ last'.op = "initialSetup" /\ last'.at = "start" /\ UsersExist)
              => last'.status = 403 /\ users' = users
        /\ \A r \in Slots :
              (reqs[r].op = "initialSetup" /\ reqs[r].pc = "create"
                  /\ reqs'[r] # Idle /\ reqs'[r].pc = "storeToken")
                  => /\ ~users[reqs'[r].id].exists
                     /\ users'[reqs'[r].id].exists
                     /\ users'[reqs'[r].id].role = "SUPER_ADMIN"
        /\ (Answers /\ last'.op = "initialSetup" /\ last'.status = 201)
              => /\ last'.userCount = 0
                 /\ users'[last'.id].exists
                 /\ last'.credential.id = last'.id
                 /\ last'.credential.role = "SUPER_ADMIN"
        /\ UsersExist => UsersExist'
      ]_vars

\* C10 witness: with a SUPER_ADMIN in the user table, a further initialSetup
\* was answered 403.
C10_Witness ==
    /\ last.op = "initialSetup" /\ last.status = 403
    /\ \E u \in UserIds : users[u].exists /\ users[u].role = "SUPER_ADMIN"

HospitalMutations == {"updateHospital", "deleteHospital", "updateSettings"}

\* C11: every mutating operation on a hospital that an authenticated
\* principal is answered 200 for appends, in the step that answers, exactly
\* one audit row, and the row's entity and entityId name the hospital.
C11_MutationAuditedOnce ==
    [][ (Answers /\ last'.op \in HospitalMutations /\ last'.status = 200)
            => /\ Len(auditLog') = Len(auditLog) + 1
               /\ auditLog'[Len(auditLog')].entity = "HOSPITAL"
               /\ auditLog'[Len(auditLog')].entityId = last'.hospitalId
      ]_vars

\* C12: when the audit write of a stock update fails (the step that stores
\* the stock and answers leaves the audit log as it was), the request is
\* answered 200 and the item carries the new stock.
C12_AuditFailureSwallowed ==
    [][ (Answers /\ last'.op = "updateStock" /\ last'.at = "write" /\ auditLog' = auditLog)
            => /\ last'.status = 200
               /\ items'[last'.id].stock = last'.newStock
      ]_vars

\* C12 witness: a stock update was answered 200 and changed the stock, and
\* the audit log has no row.
C12_Witness ==
    /\ last.op = "updateStock" /\ last.status = 200 /\ last.at = "write"
    /\ auditLog = <<>>
    /\ items[last.id].stock = last.newStock
    /\ last.newStock # last.existingItem.stock

PatientMutations == {"createPatient", "updatePatient", "deletePatient"}

\* C13: once a POST, PUT or DELETE patient request of an authenticated
\* principal has been answered, the audit log holds a generic API_REQUEST
\* entry written by the coarse hook.
C13_CoarseEntryRecorded ==
    (last.op \in PatientMutations /\ last.pc = "done")
        => \E i \in 1..Len(auditLog) : auditLog[i].entity = "API_REQUEST"

ListOps == {"getPatients", "getDashboardStats"}

\* C14: every patient row that a list of patients returns, or that the
\* dashboard counts, for a principal whose role is not SUPER_ADMIN is a row
\* of the principal's own hospital.
C14_ListsConfinedToOwnHospital ==
    [][ (Answers /\ last'.op \in ListOps /\ last'.status = 200
                 /\ last'.user.role # "SUPER_ADMIN")
            => \A p \in last'.rows : patients[p].hospitalId = last'.user.hospitalId
      ]_vars

UserByIdOps == {"getUserById", "updateUser", "deactivateUser"}

\* C15: a by-id read, update or deactivation of a user account that has no
\* hospital, asked by a principal whose role is not SUPER_ADMIN, is answered
\* 403, whatever the principal's own hospital is.
C15_NoHospitalFailsClosed ==
    [][ (Answers /\ last'.op \in UserByIdOps
                 /\ users[last'.id].exists
                 /\ users[last'.id].hospitalId = NoHospital
                 /\ last'.user.role # "SUPER_ADMIN")
            => last'.status = 403
      ]_vars

\* The request carries the HMAC of its body under the configured secret.
Authentic(req) ==
    webhookSecret # NoSecret /\ req.signature = hmac(webhookSecret, req.body)

\* C16: a webhook request is answered 200, and its event processed, only if
\* its signature is the HMAC of its body under the configured secret;
\* otherwise it is answered 401 and nothing is processed; an authentic
\* request is answered 200 also when the processing throws.
C16_WebhookAuthenticated ==
    [][ (Answers /\ last'.op = "webhook")
            => /\ last'.status = 200 => Authentic(last')
               /\ ~Authentic(last') => (last'.status = 401 /\ processed' = processed)
               /\ Authentic(last') => last'.status = 200
      ]_vars

LinkingOps == {"createLabOrder", "createPrescription", "recordRound"}

\* The hospitals of the rows a clinical request references by id.
ReferencedHospitals(req) ==
    IF req.op = "recordRound"
    THEN {admissions[req.ref].hospitalId} \cup
         (IF req.vitalSignsId = NoVital THEN {} ELSE {vitalSigns[req.vitalSignsId].hospitalId})
    ELSE {visits[req.ref].hospitalId, patients[req.patientId].hospitalId}

\* C17: a lab order, a prescription or a nursing round is created (201) only
\* if every row the request references by id passes the tenant check for the
\* principal, and then the rows it links are all of one hospital.
C17_EveryReferenceChecked ==
    [][ (Answers /\ last'.op \in LinkingOps /\ last'.status = 201)
            => /\ \A h \in ReferencedHospitals(last') : PolicyAllows(last'.user, h)
               /\ last'.user.role # "SUPER_ADMIN"
                     => Cardinality(ReferencedHospitals(last')) = 1
      ]_vars

SettingsUpdates == {"updateHospital", "updateSettings"}

\* C18: an operation that updates a hospital's settings document and is
\* answered 200 leaves every top-level key the request names with the
\* request's value and every other key with the value it had.
C18_SettingsMerged ==
    [][ (Answers /\ last'.op \in SettingsUpdates /\ last'.status = 200
                 /\ last'.settings.given)
            => \A k \in SettingKeys :
                  hospitals'[last'.hospitalId].settings[k] =
                      IF last'.settings.doc[k] # Absent
                      THEN last'.settings.doc[k]
                      ELSE hospitals[last'.hospitalId].settings[k]
      ]_vars

\* C19: a createUser request that passes the checks of its body and of its
\* hospital and names an email another account already has is answered 409.
C19_DuplicateAnswered409 ==
    [][ (Answers /\ last'.op = "createUser" /\ emailTaken(users, last'.email)
                 /\ last'.status \notin {400, 403})
            => last'.status = 409
      ]_vars

\* The hospital a settings read is about, as the documentation states it:
\* the caller's, for a SUPER_ADMIN the one ?hospitalId names.
CallerHospital(req) ==
    IF req.user.role = "SUPER_ADMIN" /\ req.hospitalId # NoHospital
    THEN req.hospitalId ELSE req.user.hospitalId

\* C20: GET /settings with a valid token, the caller's hospital existing, is
\* answered with the whole settings document of that hospital; without a
\* token it is answered with the public branding only.
C20_SettingsByCredential ==
    [][ (Answers /\ last'.op = "getSettings")
            => /\ (last'.user # NoUser /\ CallerHospital(last') # NoHospital
                      /\ hospitals[CallerHospital(last')].exists)
                    => /\ last'.status = 200
                       /\ last'.response.kind = "full"
                       /\ last'.response.hospitalId = CallerHospital(last')
                       /\ last'.response.settings = hospitals[CallerHospital(last')].settings
               /\ last'.user = NoUser
                    => (last'.status = 200 /\ last'.response.kind = "branding")
      ]_vars

\* The role set of the route of a clinical operation.
PermittedRoles(op) == IF op = "recordRound" THEN RoundRoles ELSE OrderingRoles

\* The row a clinical request names first: its visit or its admission.
FirstRowExists(req) ==
    IF req.op = "recordRound" THEN admissions[req.ref].status # "NONE"
    ELSE visits[req.ref].exists

\* C21: on the role-gated routes of lab orders, prescriptions and rounds a
\* request goes on into the controller only with a principal whose role is
\* in the route's role set; without a principal it is answered 401, with a
\* role outside the set 403, and then records and audit log are unchanged;
\* a permitted principal gets the controller's own answer (404 for a row
\* that does not exist).
C21_RoleGate ==
    [][ /\ \A r \in Slots :
              (reqs[r] = Idle /\ reqs'[r] # Idle /\ reqs'[r].op \in LinkingOps)
                  => /\ reqs'[r].user # NoUser
                     /\ reqs'[r].user.role \in PermittedRoles(reqs'[r].op)
        /\ (Answers /\ last'.op \in LinkingOps /\ last'.at = "start")
              => /\ last'.user = NoUser <=> last'.status = 401
                 /\ (last'.user # NoUser /\ last'.user.role \notin PermittedRoles(last'.op))
                       => last'.status = 403
                 /\ (last'.user # NoUser /\ last'.user.role \in PermittedRoles(last'.op)
                        /\ ~FirstRowExists(last'))
                       => last'.status = 404
                 /\ (last'.user = NoUser \/ last'.user.role \notin PermittedRoles(last'.op))
                       => (records' = records /\ auditLog' = auditLog)
      ]_vars

\* C21 witness: a nurse was refused (403) the creation of a lab order, and
\* nothing was recorded.
C21_Witness ==
    /\ last.op = "createLabOrder" /\ last.status = 403
    /\ last.user.role = "NURSE"
    /\ records = {} /\ auditLog = <<>>

\* C22: in the bed-occupancy figures available is total minus occupied;
\* with total > 0 occupancyPercentage is the integer nearest to
\* occupied / total * 100 (a half rounded upwards); with total = 0 it is 0.
C22_BedOccupancyFigures ==
    (last.op = "bedOccupancy" /\ last.pc = "done")
        => LET f == last.bedOccupancy
           IN /\ f.total = last.totalBeds /\ f.occupied = last.occupiedBeds
              /\ f.available = f.total - f.occupied
              /\ f.occupancyPercentage \in Int
              /\ f.total = 0 => f.occupancyPercentage = 0
              /\ f.total > 0 =>
                    /\ 2 * (100 * f.occupied - f.occupancyPercentage * f.total) < f.total
                    /\ 2 * (f.occupancyPercentage * f.total - 100 * f.occupied) <= f.total

\* C22 witness: two of three beds occupied are reported as 67 percent.
C22_Witness ==
    /\ last.op = "bedOccupancy" /\ last.pc = "done"
    /\ last.totalBeds = 3 /\ last.occupiedBeds = 2
    /\ last.bedOccupancy.occupancyPercentage = 67
    /\ last.bedOccupancy.available = 1

\* C23: whenever no request is in flight, a bed is OCCUPIED with
\* currentAdmissionId = A exactly when admission A is ADMITTED with that bed as
\* its bedId.
C23_BedAndAdmissionAgree ==
    Quiet => \A b \in BedIds : \A a \in AdmissionIds :
                (beds[b].status = "OCCUPIED" /\ beds[b].currentAdmissionId = a)
                    <=> (admissions[a].status = "ADMITTED" /\ admissions[a].bedId = b)

\* C24: DISCHARGED is terminal: no step changes the row of a DISCHARGED
\* admission, and no step of an assignBed request for a DISCHARGED admission
\* changes a bed.
C24_DischargedIsTerminal ==
    [][ \A a \in AdmissionIds :
          admissions[a].status = "DISCHARGED"
              => /\ admissions'[a] = admissions[a]
                 /\ \A r \in Slots :
                       (reqs[r].op = "assignBed" /\ reqs[r].adm = a /\ reqs'[r] # reqs[r])
                           => beds' = beds
      ]_vars

\* C25: a step gives an account the role SUPER_ADMIN (a new account, or a
\* changed role) only if it is the creation step of initialSetup or the answer
\* to a request of a SUPER_ADMIN principal.
C25_OnlySuperAdminMakesSuperAdmin ==
    [][ \A x \in UserIds :
          (users'[x].role = "SUPER_ADMIN" /\ users[x].role # "SUPER_ADMIN")
              => \/ \E r \in Slots : reqs[r].op = "initialSetup" /\ reqs[r].pc = "create"
                                       /\ reqs'[r] # reqs[r]
                 \/ Answers /\ last'.op \in {"createUser", "updateUser"}
                            /\ last'.user.role = "SUPER_ADMIN"
      ]_vars

\* C26: of the initialSetup requests that overlap on an empty user table at
\* most one creates a user: the creation step of initialSetup is taken only
\* while the user table is empty.
C26_OneSetupCreates ==
    [][ \A r \in Slots :
          (reqs[r].op = "initialSetup" /\ reqs[r].pc = "create"
              /\ reqs'[r] # Idle /\ reqs'[r].pc = "storeToken")
              => userCount(users) = 0
      ]_vars

\* C27: overlapping updateStock requests on one item are serializable: the
\* stock an accepted request writes is the one its type and adjustment give
\* from the stock the item has when it is written, so that two accepted
\* SUBTRACTs of a and b from s leave s - a - b and a SUBTRACT never writes a
\* negative stock.
C27_StockUpdatesSerializable ==
    [][ \A r \in Slots :
          (reqs[r].op = "updateStock" /\ reqs[r].pc = "write" /\ reqs'[r] = Idle
              /\ Answers /\ last'.status = 200)
              => /\ items'[reqs[r].id].stock
                       = newStock(items[reqs[r].id].stock, reqs[r].type, reqs[r].adjustment)
                 /\ reqs[r].type = "SUBTRACT" => items'[reqs[r].id].stock >= 0
      ]_vars

\* C28: the stock of an item is never negative, whatever updateStock requests
\* are applied one after another.
C28_StockNeverNegative ==
    \A i \in ItemIds : items[i].exists => items[i].stock >= 0

\* C29: updateHospital is answered 200 only to a SUPER_ADMIN or to the ADMIN of
\* the hospital named; every other principal is answered 403 and the hospital
\* table is unchanged.
C29_UpdateHospitalByItsAdmin ==
    [][ (Answers /\ last'.op = "updateHospital"
            /\ ~(\/ last'.user.role = "SUPER_ADMIN"
                 \/ last'.user.role = "ADMIN" /\ last'.user.hospitalId = last'.hospitalId))
          => last'.status = 403 /\ hospitals' = hospitals
      ]_vars

\* C30: no request makes the account of its own principal inactive:
\* deactivateUser on one's own id is answered 400 (when the tenant check lets
\* it through), and no answered request of a principal takes that principal's
\* account from active to inactive.
C30_NoSelfDeactivation ==
    [][ /\ (Answers /\ last'.op = "deactivateUser" /\ last'.id = last'.user.id
                    /\ last'.user.role \in UserAdminRoles
                    /\ HasHospitalAccess(last'.user, users[last'.id].hospitalId))
              => last'.status = 400 /\ users' = users
        /\ (Answers /\ last'.user # NoUser /\ last'.user.id \in UserIds
                    /\ users[last'.user.id].active)
              => users'[last'.user.id].active
      ]_vars

====
